---- MODULE Spec2Model ----
(***************************************************************************)
(* Verification model of the fieldmask package: the path parser, the key   *)
(* codec, the mask tree (record, list, map and scalar field masks), the    *)
(* generic copy/update routines and the Mask / Clone / Update / Paths      *)
(* facade.                                                                 *)
(*                                                                         *)
(* Go strings are modelled as sequences of one-character strings, so the   *)
(* path grammar is parsed character by character as the code does.         *)
(* A protobuf message is [f |-> fields, u |-> unknown bytes] where f is a  *)
(* function from the text names of the populated fields to their values:   *)
(* an integer (scalar), a sequence (list), a function over keys (map) or a *)
(* message.  An empty list or map that is present stands for a container   *)
(* that was allocated but holds nothing; Has() is false for it.            *)
(***************************************************************************)
EXTENDS Integers, Sequences, FiniteSets, TLC

\* ------------------------------------------------------------------ bounds
\* Largest number of paths a mask is built from (New plus Appends).
MaxPaths == 3

\* ------------------------------------------------------------- characters
\* The back quote character (written as a name: the lexer of the tools does
\* not accept it inside a string).
BQ == "BQ"

\* The characters used by the model, in ascending byte order.
Chars ==
  << "*", "+", ",", "-", ".",
     "0", "1", "2", "3", "4", "5", "6", "7", "8", "9", "Y", "\\", BQ,
     "i", "j", "k", "l", "m", "n", "q", "r", "s", "x", "y", "z" >>

Ord(c) == CHOOSE i \in 1..Len(Chars) : Chars[i] = c

\* Go string comparison a < b (bytewise lexicographic).
RECURSIVE StrLess(_, _)
StrLess(a, b) ==
  IF b = <<>> THEN FALSE
  ELSE IF a = <<>> THEN TRUE
  ELSE IF a[1] # b[1] THEN Ord(a[1]) < Ord(b[1])
  ELSE StrLess(Tail(a), Tail(b))

\* sort.Strings / slices.Sort: the elements of set S in ascending order.
RECURSIVE SortStrings(_)
SortStrings(S) ==
  IF S = {} THEN <<>>
  ELSE LET mn == CHOOSE a \in S : \A b \in S \ {a} : StrLess(a, b)
       IN  <<mn>> \o SortStrings(S \ {mn})

RECURSIVE SortInts(_)
SortInts(S) ==
  IF S = {} THEN <<>>
  ELSE LET mn == CHOOSE a \in S : \A b \in S \ {a} : a < b
       IN  <<mn>> \o SortInts(S \ {mn})

\* The empty function (a map with no entries).
EmptyFn == [z \in {} |-> 0]

\* ----------------------------------------------------------- path parser
errSyntax == "syntax"

\* strings.IndexAny(s, ".,"): index of the first delimiter, 0 if none.
IndexAnyDelim(s) ==
  IF \E i \in 1..Len(s) : s[i] \in {".", ","}
  THEN CHOOSE i \in 1..Len(s) :
         /\ s[i] \in {".", ","}
         /\ \A j \in 1..(i - 1) : s[j] \notin {".", ","}
  ELSE 0

\* strconv.QuotedPrefix for a string starting with a back quote: the raw
\* string extends to the next back quote; 0 if it is not terminated.
QuotedPrefixLen(s) ==
  IF \E i \in 2..Len(s) : s[i] = BQ
  THEN CHOOSE i \in 2..Len(s) :
         /\ s[i] = BQ
         /\ \A j \in 2..(i - 1) : s[j] # BQ
  ELSE 0

\* nextToken taking a back quote for an ordinary character
nextToken_plain(s) ==
  IF s = <<>> THEN [err |-> errSyntax, token |-> <<>>, rest |-> <<>>]
  ELSE IF s[1] \in {".", ",", "*"}
    THEN [err |-> "ok", token |-> <<s[1]>>, rest |-> Tail(s)]
  ELSE LET i == IndexAnyDelim(s)
       IN  IF i # 0
           THEN [err |-> "ok", token |-> SubSeq(s, 1, i - 1),
                 rest |-> SubSeq(s, i, Len(s))]
           ELSE [err |-> "ok", token |-> s, rest |-> <<>>]

nextToken(s) ==
  IF s = <<>> THEN [err |-> errSyntax, token |-> <<>>, rest |-> <<>>]
  ELSE IF s[1] \in {".", ",", "*"}
    THEN [err |-> "ok", token |-> <<s[1]>>, rest |-> Tail(s)]
  ELSE IF s[1] = BQ
    THEN LET n == QuotedPrefixLen(s)
         IN  IF n = 0
             THEN [err |-> errSyntax, token |-> <<>>, rest |-> <<>>]
             ELSE [err |-> "ok", token |-> SubSeq(s, 1, n),
                   rest |-> SubSeq(s, n + 1, Len(s))]
  ELSE LET i == IndexAnyDelim(s)
       IN  IF i # 0
           THEN [err |-> "ok", token |-> SubSeq(s, 1, i - 1),
                 rest |-> SubSeq(s, i, Len(s))]
           ELSE [err |-> "ok", token |-> s, rest |-> <<>>]

badSegment == [err |-> errSyntax, segment |-> <<>>, rest |-> <<>>]

\* nextSegment after the token that follows the segment was read (t2)
nextSegment_dot(segment, t2) ==
  IF t2.err # "ok" \/ t2.token # <<".">> \/ t2.rest = <<>> THEN badSegment
  ELSE [err |-> "ok", segment |-> segment, rest |-> t2.rest]

\* nextSegment after its first token was read (t1)
nextSegment_first(t1) ==
  IF t1.err # "ok" \/ t1.token = <<".">> \/ t1.token = <<",">>
  THEN badSegment
  ELSE IF t1.rest = <<>>
    THEN [err |-> "ok", segment |-> t1.token, rest |-> <<>>]
  ELSE nextSegment_dot(t1.token, nextToken(t1.rest))

nextSegment(s) == nextSegment_first(nextToken(s))

RECURSIVE nextPathLoop(_, _)
nextPathLoop(s, rest) ==
  LET t1  == nextToken(rest)
      bad == [err |-> errSyntax, path |-> <<>>, rest |-> <<>>]
  IN  IF t1.err # "ok" \/ t1.token = <<".">> \/ t1.token = <<",">> THEN bad
      ELSE IF t1.rest = <<>> THEN [err |-> "ok", path |-> s, rest |-> <<>>]
      ELSE LET t2 == nextToken(t1.rest)
           IN  IF t2.err # "ok" \/ t2.rest = <<>> THEN bad
               ELSE IF t2.token = <<",">>
                 THEN [err |-> "ok",
                       path |-> SubSeq(s, 1, Len(s) - Len(t2.rest) - 1),
                       rest |-> t2.rest]
               ELSE IF t2.token # <<".">> THEN bad
               ELSE nextPathLoop(s, t2.rest)

nextPath(s) ==
  IF s = <<>> THEN [err |-> errSyntax, path |-> <<>>, rest |-> <<>>]
  ELSE nextPathLoop(s, s)

joinPath(a, b) == a \o <<".">> \o b

\* The characters of the model are all printable, valid and not control
\* characters, so only the reserved ones force quoting.
shouldQuote(s) ==
  \/ s = <<>>
  \/ s = <<"*">>
  \/ \E i \in 1..Len(s) : s[i] \in {".", ",", BQ}

\* quote.With(segment, '`'): the segment between back quotes, a back quote
\* or backslash inside it escaped with a backslash.
RECURSIVE quoteBody(_)
quoteBody(s) ==
  IF s = <<>> THEN <<>>
  ELSE (IF s[1] = BQ THEN <<"\\", BQ>> ELSE <<s[1]>>) \o quoteBody(Tail(s))

quoteWith(s) == <<BQ>> \o quoteBody(s) \o <<BQ>>

maybeQuote(segment) ==
  IF shouldQuote(segment) THEN quoteWith(segment) ELSE segment

\* ----------------------------------------------------------------- schema
\* The record type of the model.  Every record-valued field (n, the
\* elements of r, the values of m) is of this same type, as in the test
\* message of the package.
\*   x  scalar                      y  scalar with JSON name Y
\*   l  list of scalars             r  list of records
\*   s  map string -> scalar        i  map int32 -> scalar
\*   m  map string -> record        n  record
FieldNames == {"x", "y", "l", "r", "s", "i", "m", "n"}

FieldKind ==
  [x |-> "scalar", y |-> "scalar", l |-> "scalarList", r |-> "msgList",
   s |-> "scalarMap", i |-> "scalarMap", m |-> "msgMap", n |-> "msg"]

JSONNameOf ==
  [x |-> "x", y |-> "Y", l |-> "l", r |-> "r",
   s |-> "s", i |-> "i", m |-> "m", n |-> "n"]

MapKeyKind == [s |-> "string", i |-> "int32", m |-> "string"]

\* protoreflect.FieldDescriptors.ByTextName / ByJSONName: "" when not found.
ByTextName(name) ==
  IF Len(name) = 1 /\ name[1] \in FieldNames THEN name[1] ELSE ""

ByJSONName(name) ==
  IF Len(name) = 1 /\ \E fd \in FieldNames : JSONNameOf[fd] = name[1]
  THEN CHOOSE fd \in FieldNames : JSONNameOf[fd] = name[1]
  ELSE ""

TextName(fd) == <<fd>>
JSONName(fd) == <<JSONNameOf[fd]>>

\* ---------------------------------------------------------------- settings
TextFieldName == "TextFieldName"
JSONFieldName == "JSONFieldName"
MaskRemovesUnknowns == "MaskRemovesUnknowns"
MaskRetainsUnknowns == "MaskRetainsUnknowns"
UpdateRetainsUnknowns == "UpdateRetainsUnknowns"
UpdateAppendsUnknowns == "UpdateAppendsUnknowns"
UpdateReplacesUnknowns == "UpdateReplacesUnknowns"
UpdateReplacesRepeated == "UpdateReplacesRepeated"
UpdateAppendsRepeated == "UpdateAppendsRepeated"

lookupTextField(name) ==
  LET fd1 == ByTextName(name)
      fd  == IF fd1 = "" THEN ByJSONName(name) ELSE fd1
  IN  IF fd = "" THEN [found |-> FALSE, key |-> <<>>, fd |-> ""]
      ELSE [found |-> TRUE, key |-> TextName(fd), fd |-> fd]

lookupJSONField(name) ==
  LET fd1 == ByJSONName(name)
      fd  == IF fd1 = "" THEN ByTextName(name) ELSE fd1
  IN  IF fd = "" THEN [found |-> FALSE, key |-> <<>>, fd |-> ""]
      ELSE [found |-> TRUE, key |-> JSONName(fd), fd |-> fd]

\* lookupTextFieldStrict falling back to the other name
lookupTextFieldStrict_fallback(name) == lookupTextField(name)

lookupTextFieldStrict(name) ==
  LET fd == ByTextName(name)
  IN  IF fd = "" \/ TextName(fd) # name
      THEN [found |-> FALSE, key |-> <<>>, fd |-> ""]
      ELSE [found |-> TRUE, key |-> TextName(fd), fd |-> fd]

lookupJSONFieldStrict(name) ==
  LET fd == ByJSONName(name)
  IN  IF fd = "" \/ JSONName(fd) # name
      THEN [found |-> FALSE, key |-> <<>>, fd |-> ""]
      ELSE [found |-> TRUE, key |-> JSONName(fd), fd |-> fd]

\* The lookup function of the strict form of a field-name mode, the form
\* that the tests select with WithFieldName(mode, true).
lookupFieldStrict(st, name) ==
  IF st.fieldName = JSONFieldName
  THEN lookupJSONFieldStrict(name) ELSE lookupTextFieldStrict(name)

\* settings.lookupField, as set by WithFieldName.
lookupField(st, name) ==
  IF st.strict THEN lookupFieldStrict(st, name)
  ELSE IF st.fieldName = JSONFieldName
    THEN lookupJSONField(name) ELSE lookupTextField(name)

\* --------------------------------------------------------------- key codec
Digits == <<"0", "1", "2", "3", "4", "5", "6", "7", "8", "9">>
IsDigit(c) == \E d \in 1..Len(Digits) : Digits[d] = c
DigitVal(c) == (CHOOSE d \in 1..Len(Digits) : Digits[d] = c) - 1

MaxInt32 == 2147483647

\* The digits of s read after the non-positive number acc, as a number
\* that is not positive; 1 when the number passes limit (the range test of
\* strconv.ParseInt, made before every step on numbers of 32 bits).
RECURSIVE DigitsVal(_, _, _)
DigitsVal(s, acc, limit) ==
  IF s = <<>> THEN acc
  ELSE IF acc < (limit + DigitVal(s[1]) + 9) \div 10 THEN 1
  ELSE DigitsVal(Tail(s), acc * 10 - DigitVal(s[1]), limit)

\* strconv.ParseInt(s, 10, 32)
ParseInt32(s) ==
  LET neg   == s # <<>> /\ s[1] = "-"
      body  == IF s # <<>> /\ s[1] \in {"+", "-"} THEN Tail(s) ELSE s
      limit == IF neg THEN (0 - MaxInt32) - 1 ELSE 0 - MaxInt32
      v     == DigitsVal(body, 0, limit)
  IN  IF body = <<>> \/ \E j \in 1..Len(body) : ~IsDigit(body[j])
      THEN [err |-> "keyparse", k |-> 0]
      ELSE IF v = 1 THEN [err |-> "keyparse", k |-> 0]
      ELSE [err |-> "ok", k |-> IF neg THEN v ELSE 0 - v]

RECURSIVE FormatNat(_)
FormatNat(n) ==
  IF n < 10 THEN <<Digits[n + 1]>>
  ELSE FormatNat(n \div 10) \o <<Digits[(n % 10) + 1]>>

\* strconv.FormatInt(v, 10)
FormatInt(v) == IF v < 0 THEN <<"-">> \o FormatNat(0 - v) ELSE FormatNat(v)

\* strconv.Unquote of a token that starts with a back quote.
Unquote(s) ==
  IF /\ Len(s) >= 2
     /\ s[Len(s)] = BQ
     /\ \A j \in 2..(Len(s) - 1) : s[j] # BQ
  THEN [err |-> "ok", s |-> SubSeq(s, 2, Len(s) - 1)]
  ELSE [err |-> "keyparse", s |-> <<>>]

keyParse(kind, s) ==
  IF kind = "int32" THEN ParseInt32(s) ELSE [err |-> "ok", k |-> s]

keyFormat(kind, k) == IF kind = "int32" THEN FormatInt(k) ELSE k

\* keyFuncs.key parsing the segment as written, quotes and all
key_raw(kind, s) == keyParse(kind, s)

\* keyFuncs.key
key(kind, s) ==
  IF s # <<>> /\ s[1] = BQ
  THEN LET u == Unquote(s)
       IN  IF u.err # "ok" THEN [err |-> u.err, k |-> 0]
           ELSE keyParse(kind, u.s)
  ELSE keyParse(kind, s)

sortKeys(kind, S) == IF kind = "int32" THEN SortInts(S) ELSE SortStrings(S)

\* --------------------------------------------------------------- mask tree
\* A mask node is a record tagged by t.  A nil Go pointer or nil Go map is
\* a flag next to a placeholder value:
\*   msgMask             [t |-> "msg", nil, fields]     nil: fields == nil
\*   scalarFieldMask     [t |-> "scalar"]
\*   scalarListFieldMask [t |-> "scalarList"]
\*   msgListFieldMask    [t |-> "msgList", nil, msgMask]  nil: msgMask == nil
\*   scalarMapFieldMask  [t |-> "scalarMap", desc, nil, keys]
\*   msgMapFieldMask     [t |-> "msgMap", desc, wildNil, wildMask,
\*                        keyedNil, keyedMasks]
\* A msgFieldMask embeds a msgMask and is represented by it.
\* init and append return [err, m]: the error ("ok" for nil) and the
\* receiver as the call leaves it, also when the call fails.
NilMask == [t |-> "nil"]

newMsgMask == [t |-> "msg", nil |-> TRUE, fields |-> EmptyFn]

newFieldMask(fd) ==
  CASE FieldKind[fd] = "scalarList" -> [t |-> "scalarList"]
    [] FieldKind[fd] = "msgList" ->
         [t |-> "msgList", nil |-> TRUE, msgMask |-> NilMask]
    [] FieldKind[fd] = "scalarMap" ->
         [t |-> "scalarMap", desc |-> fd, nil |-> TRUE, keys |-> {}]
    [] FieldKind[fd] = "msgMap" ->
         [t |-> "msgMap", desc |-> fd, wildNil |-> TRUE, wildMask |-> NilMask,
          keyedNil |-> TRUE, keyedMasks |-> EmptyFn]
    [] FieldKind[fd] = "msg" -> newMsgMask
    [] OTHER -> [t |-> "scalar"]

Res(e, mask) == [err |-> e, m |-> mask]

IsBare(path) == path = <<>> \/ path = <<"*">>

\* addScalarPath accepting every subpath
addScalarPath_any(path) == "ok"

addScalarPath(path) == IF path # <<>> THEN "scalar" ELSE "ok"

RECURSIVE msgMask_init(_, _, _)
RECURSIVE msgMask_append(_, _, _)
RECURSIVE msgMask_paths(_)
RECURSIVE fieldMask_init(_, _, _)
RECURSIVE fieldMask_append(_, _, _)
RECURSIVE fieldMask_paths(_)
RECURSIVE msgMapFieldMask_addWild(_, _, _)
RECURSIVE msgMapFieldMask_addKeyed(_, _, _, _)
RECURSIVE appendPaths(_, _, _)

msgMask_complete(mm) == mm.nil

\* msgMask.init after fld.init returned r: the field is stored when it
\* succeeded.
msgMask_initField(mm, name, r) ==
  IF r.err # "ok" THEN Res(r.err, mm)
  ELSE Res("ok", [mm EXCEPT !.nil = FALSE, !.fields = (name :> r.m)])

\* msgMask.init after lookupField returned lk for the first segment
msgMask_initLookup(st, mm, rest, lk) ==
  IF ~lk.found THEN Res("unknown", mm)
  ELSE msgMask_initField(mm, lk.key,
         fieldMask_init(st, newFieldMask(lk.fd), rest))

\* msgMask.init after nextSegment returned seg
msgMask_initSegment(st, mm, seg) ==
  IF seg.err # "ok" THEN Res(seg.err, mm)
  ELSE msgMask_initLookup(st, mm, seg.rest, lookupField(st, seg.segment))

msgMask_init(st, mm, path) ==
  IF IsBare(path) THEN Res("ok", mm)
  ELSE msgMask_initSegment(st, mm, nextSegment(path))

\* msgMask.append after fld.append returned r on the field mask it holds:
\* append wrote into that field mask.
msgMask_appendField(mm, name, r) ==
  Res(r.err, [mm EXCEPT !.fields[name] = r.m])

\* msgMask.append storing the new field mask whether or not its init failed
msgMask_addField_early(mm, name, r) ==
  Res(r.err, [mm EXCEPT !.fields = (name :> r.m) @@ mm.fields])

\* msgMask.append after fld.init returned r on a new field mask: the field
\* is stored when it succeeded.
msgMask_addField(mm, name, r) ==
  IF r.err # "ok" THEN Res(r.err, mm)
  ELSE Res("ok", [mm EXCEPT !.fields = (name :> r.m) @@ mm.fields])

\* msgMask.append returning for a complete mask before it looks at lk
msgMask_appendLookup_lazy(st, mm, rest, lk) ==
  IF mm.nil THEN Res("ok", mm)
  ELSE IF ~lk.found THEN Res("unknown", mm)
  ELSE IF lk.key \in DOMAIN mm.fields
    THEN msgMask_appendField(mm, lk.key,
           fieldMask_append(st, mm.fields[lk.key], rest))
  ELSE msgMask_addField(mm, lk.key,
         fieldMask_init(st, newFieldMask(lk.fd), rest))

\* msgMask.append after lookupField returned lk for the first segment
msgMask_appendLookup(st, mm, rest, lk) ==
  IF ~lk.found THEN Res("unknown", mm)
  ELSE IF mm.nil THEN Res("ok", mm)
  ELSE IF lk.key \in DOMAIN mm.fields
    THEN msgMask_appendField(mm, lk.key,
           fieldMask_append(st, mm.fields[lk.key], rest))
  ELSE msgMask_addField(mm, lk.key,
         fieldMask_init(st, newFieldMask(lk.fd), rest))

\* msgMask.append after nextSegment returned seg
msgMask_appendSegment(st, mm, seg) ==
  IF seg.err # "ok" THEN Res(seg.err, mm)
  ELSE msgMask_appendLookup(st, mm, seg.rest, lookupField(st, seg.segment))

msgMask_append(st, mm, path) ==
  IF IsBare(path) THEN Res("ok", [mm EXCEPT !.nil = TRUE, !.fields = EmptyFn])
  ELSE msgMask_appendSegment(st, mm, nextSegment(path))

\* The names of paths are emitted in sort.Strings order.
RECURSIVE msgMask_pathsOf(_, _)
msgMask_pathsOf(mm, names) ==
  IF names = <<>> THEN <<>>
  ELSE LET name == names[1]
           subs == fieldMask_paths(mm.fields[name])
           mine == IF Len(subs) = 0 THEN <<name>>
                   ELSE [j \in 1..Len(subs) |-> joinPath(name, subs[j])]
       IN  mine \o msgMask_pathsOf(mm, Tail(names))

msgMask_paths(mm) ==
  IF mm.nil THEN <<>>
  ELSE msgMask_pathsOf(mm, SortStrings(DOMAIN mm.fields))

\* ---- scalar list
\* scalarListFieldMask.add after nextSegment returned seg
scalarListFieldMask_addSegment(fm, seg) ==
  IF seg.err # "ok" THEN Res(seg.err, fm)
  ELSE IF seg.segment # <<"*">> THEN Res("list", fm)
  ELSE IF seg.rest # <<>> THEN Res("scalar", fm)
  ELSE Res("ok", fm)

scalarListFieldMask_add(fm, path) ==
  IF IsBare(path) THEN Res("ok", fm)
  ELSE scalarListFieldMask_addSegment(fm, nextSegment(path))

\* ---- record list
msgListFieldMask_complete(fm) == fm.nil

\* msgListFieldMask.init after vm.init returned r
msgListFieldMask_initElem(fm, r) ==
  IF r.err # "ok" THEN Res(r.err, fm)
  ELSE Res("ok", [fm EXCEPT !.nil = FALSE, !.msgMask = r.m])

\* msgListFieldMask.init after nextSegment returned seg
msgListFieldMask_initSegment(st, fm, seg) ==
  IF seg.err # "ok" THEN Res(seg.err, fm)
  ELSE IF seg.segment # <<"*">> THEN Res("list", fm)
  ELSE msgListFieldMask_initElem(fm, msgMask_init(st, newMsgMask, seg.rest))

msgListFieldMask_init(st, fm, path) ==
  IF IsBare(path)
  THEN Res("ok", [fm EXCEPT !.nil = TRUE, !.msgMask = NilMask])
  ELSE msgListFieldMask_initSegment(st, fm, nextSegment(path))

\* msgListFieldMask.append after fm.msgMask.append returned r
msgListFieldMask_appendElem(fm, r) ==
  Res(r.err, [fm EXCEPT !.msgMask = r.m])

\* msgListFieldMask.append testing for a complete mask before the segment
msgListFieldMask_appendSegment_late(st, fm, seg) ==
  IF seg.err # "ok" THEN Res(seg.err, fm)
  ELSE IF fm.nil THEN Res("ok", fm)
  ELSE IF seg.segment # <<"*">> THEN Res("list", fm)
  ELSE msgListFieldMask_appendElem(fm,
         msgMask_append(st, fm.msgMask, seg.rest))

\* msgListFieldMask.append after nextSegment returned seg
msgListFieldMask_appendSegment(st, fm, seg) ==
  IF seg.err # "ok" THEN Res(seg.err, fm)
  ELSE IF seg.segment # <<"*">> THEN Res("list", fm)
  ELSE IF fm.nil THEN Res("ok", fm)
  ELSE msgListFieldMask_appendElem(fm,
         msgMask_append(st, fm.msgMask, seg.rest))

msgListFieldMask_append(st, fm, path) ==
  IF IsBare(path)
  THEN Res("ok", [fm EXCEPT !.nil = TRUE, !.msgMask = NilMask])
  ELSE msgListFieldMask_appendSegment(st, fm, nextSegment(path))

msgListFieldMask_paths(fm) ==
  IF msgListFieldMask_complete(fm) THEN <<>>
  ELSE LET subs == msgMask_paths(fm.msgMask)
       IN  [j \in 1..Len(subs) |-> joinPath(<<"*">>, subs[j])]

\* ---- scalar map
scalarMapFieldMask_complete(fm) == fm.nil

scalarMapFieldMask_addWild(fm, subpath) ==
  IF subpath # <<>> THEN Res("scalar", fm)
  ELSE Res("ok", [fm EXCEPT !.nil = TRUE, !.keys = {}])

\* scalarMapFieldMask.addKeyed dropping the error of fm.key
scalarMapFieldMask_addKey_unchecked(fm, subpath, k) ==
  IF subpath # <<>> THEN Res("scalar", fm)
  ELSE Res("ok", [fm EXCEPT !.nil = FALSE, !.keys = fm.keys \cup {k.k}])

\* scalarMapFieldMask.addKeyed after fm.key returned k
scalarMapFieldMask_addKey(fm, subpath, k) ==
  IF k.err # "ok" THEN Res(k.err, fm)
  ELSE IF subpath # <<>> THEN Res("scalar", fm)
  ELSE Res("ok", [fm EXCEPT !.nil = FALSE, !.keys = fm.keys \cup {k.k}])

scalarMapFieldMask_addKeyed(fm, name, subpath) ==
  scalarMapFieldMask_addKey(fm, subpath, key(MapKeyKind[fm.desc], name))

\* scalarMapFieldMask.add after nextSegment returned seg
scalarMapFieldMask_addSegment(fm, seg) ==
  IF seg.err # "ok" THEN Res(seg.err, fm)
  ELSE IF seg.segment = <<"*">>
    THEN scalarMapFieldMask_addWild(fm, seg.rest)
  ELSE scalarMapFieldMask_addKeyed(fm, seg.segment, seg.rest)

scalarMapFieldMask_add(fm, path) ==
  IF IsBare(path) THEN scalarMapFieldMask_addWild(fm, <<>>)
  ELSE scalarMapFieldMask_addSegment(fm, nextSegment(path))

scalarMapFieldMask_append(fm, path) ==
  IF scalarMapFieldMask_complete(fm) THEN Res("ok", fm)
  ELSE scalarMapFieldMask_add(fm, path)

scalarMapFieldMask_paths(fm) ==
  IF fm.nil THEN <<>>
  ELSE LET keys == sortKeys(MapKeyKind[fm.desc], fm.keys)
       IN  [j \in 1..Len(keys) |->
              maybeQuote(keyFormat(MapKeyKind[fm.desc], keys[j]))]

\* ---- record map
msgMapFieldMask_complete(fm) == fm.keyedNil /\ fm.wildNil

\* for _, path := range paths { m.append(path) }, stopping at an error;
\* r is what the append of the path before returned
appendRest(st, r, rest) ==
  IF r.err # "ok" THEN r ELSE appendPaths(st, r.m, rest)

appendPaths(st, mm, paths) ==
  IF paths = <<>> THEN Res("ok", mm)
  ELSE appendRest(st, msgMask_append(st, mm, paths[1]), Tail(paths))

\* addWild after the wild submask w.m was made and every keyed submask was
\* given the subpath (rk): a keyed append that fails panics.
msgMapFieldMask_echoed(fm, w, rk) ==
  LET fm1 == [fm EXCEPT !.wildNil = FALSE, !.wildMask = w.m,
                !.keyedMasks = [k \in DOMAIN fm.keyedMasks |-> rk[k].m]]
  IN  IF \E k \in DOMAIN rk : rk[k].err # "ok"
      THEN Res("panic", fm1)
      ELSE Res("ok", fm1)

\* addWild after init or append of the wild submask returned w
msgMapFieldMask_echoWild(st, fm, subpath, w) ==
  IF w.err # "ok"
  THEN (IF fm.wildNil THEN Res(w.err, fm)
        ELSE Res(w.err, [fm EXCEPT !.wildMask = w.m]))
  ELSE msgMapFieldMask_echoed(fm, w,
         [k \in DOMAIN fm.keyedMasks |->
            msgMask_append(st, fm.keyedMasks[k], subpath)])

msgMapFieldMask_addWild(st, fm, subpath) ==
  IF subpath = <<>>
  THEN Res("ok", [fm EXCEPT !.wildNil = TRUE, !.wildMask = NilMask,
                            !.keyedNil = TRUE, !.keyedMasks = EmptyFn])
  ELSE msgMapFieldMask_echoWild(st, fm, subpath,
         IF fm.wildNil
         THEN msgMask_init(st, newMsgMask, subpath)
         ELSE msgMask_append(st, fm.wildMask, subpath))

\* addKeyed after append on the keyed submask it holds returned r
msgMapFieldMask_appendKeyed(fm, k, r) ==
  Res(r.err, [fm EXCEPT !.keyedMasks[k] = r.m])

\* addKeyed after the new keyed submask was given the paths of the wild
\* submask: a failure panics, else the submask is stored.
msgMapFieldMask_storeKeyed(fm, k, seeded) ==
  IF seeded.err # "ok" THEN Res("panic", fm)
  ELSE Res("ok", [fm EXCEPT !.keyedNil = FALSE,
                    !.keyedMasks = (k :> seeded.m) @@ fm.keyedMasks])

\* addKeyed after init of the new keyed submask returned r
msgMapFieldMask_seedKeyed(st, fm, k, r) ==
  IF r.err # "ok" THEN Res(r.err, fm)
  ELSE msgMapFieldMask_storeKeyed(fm, k,
         IF fm.wildNil THEN Res("ok", r.m)
         ELSE appendPaths(st, r.m, msgMask_paths(fm.wildMask)))

\* msgMapFieldMask.addKeyed after fm.key returned k
msgMapFieldMask_addKey(st, fm, subpath, k) ==
  IF k.err # "ok" THEN Res(k.err, fm)
  ELSE IF k.k \in DOMAIN fm.keyedMasks
    THEN msgMapFieldMask_appendKeyed(fm, k.k,
           msgMask_append(st, fm.keyedMasks[k.k], subpath))
  ELSE msgMapFieldMask_seedKeyed(st, fm, k.k,
         msgMask_init(st, newMsgMask, subpath))

msgMapFieldMask_addKeyed(st, fm, name, subpath) ==
  msgMapFieldMask_addKey(st, fm, subpath, key(MapKeyKind[fm.desc], name))

\* msgMapFieldMask.add after nextSegment returned seg
msgMapFieldMask_addSegment(st, fm, seg) ==
  IF seg.err # "ok" THEN Res(seg.err, fm)
  ELSE IF seg.segment = <<"*">>
    THEN msgMapFieldMask_addWild(st, fm, seg.rest)
  ELSE msgMapFieldMask_addKeyed(st, fm, seg.segment, seg.rest)

msgMapFieldMask_add(st, fm, path) ==
  IF IsBare(path) THEN msgMapFieldMask_addWild(st, fm, <<>>)
  ELSE msgMapFieldMask_addSegment(st, fm, nextSegment(path))

\* msgMapFieldMask.append without the test for a complete mask
msgMapFieldMask_append_always(st, fm, path) ==
  msgMapFieldMask_add(st, fm, path)

msgMapFieldMask_append(st, fm, path) ==
  IF msgMapFieldMask_complete(fm) THEN Res("ok", fm)
  ELSE msgMapFieldMask_add(st, fm, path)

toSet(s) == {s[j] : j \in 1..Len(s)}

\* remove(haystack, needles): slices.DeleteFunc of the needles
remove(haystack, needles) ==
  IF needles = {} THEN haystack
  ELSE SelectSeq(haystack, LAMBDA v : v \notin needles)

RECURSIVE msgMapFieldMask_keyedPaths(_, _, _)
msgMapFieldMask_keyedPaths(fm, keys, wild) ==
  IF keys = <<>> THEN <<>>
  ELSE LET name == maybeQuote(keyFormat(MapKeyKind[fm.desc], keys[1]))
           subs == msgMask_paths(fm.keyedMasks[keys[1]])
           kept == remove(subs, toSet(wild))
           mine == IF Len(subs) = 0 THEN <<name>>
                   ELSE [j \in 1..Len(kept) |-> joinPath(name, kept[j])]
       IN  mine \o msgMapFieldMask_keyedPaths(fm, Tail(keys), wild)

msgMapFieldMask_paths(fm) ==
  LET wild  == IF fm.wildNil THEN <<>> ELSE msgMask_paths(fm.wildMask)
      paths == [j \in 1..Len(wild) |-> joinPath(<<"*">>, wild[j])]
  IN  IF fm.keyedNil THEN paths
      ELSE paths \o msgMapFieldMask_keyedPaths(fm,
                      sortKeys(MapKeyKind[fm.desc], DOMAIN fm.keyedMasks),
                      wild)

\* ---- dispatch over the fieldMask interface
fieldMask_complete(fm) ==
  CASE fm.t = "msg" -> msgMask_complete(fm)
    [] fm.t = "msgList" -> msgListFieldMask_complete(fm)
    [] fm.t = "scalarMap" -> scalarMapFieldMask_complete(fm)
    [] fm.t = "msgMap" -> msgMapFieldMask_complete(fm)
    [] OTHER -> TRUE

fieldMask_init(st, fm, path) ==
  CASE fm.t = "msg" -> msgMask_init(st, fm, path)
    [] fm.t = "msgList" -> msgListFieldMask_init(st, fm, path)
    [] fm.t = "scalarList" -> scalarListFieldMask_add(fm, path)
    [] fm.t = "scalarMap" -> scalarMapFieldMask_add(fm, path)
    [] fm.t = "msgMap" -> msgMapFieldMask_add(st, fm, path)
    [] OTHER -> Res(addScalarPath(path), fm)

fieldMask_append(st, fm, path) ==
  CASE fm.t = "msg" -> msgMask_append(st, fm, path)
    [] fm.t = "msgList" -> msgListFieldMask_append(st, fm, path)
    [] fm.t = "scalarList" -> scalarListFieldMask_add(fm, path)
    [] fm.t = "scalarMap" -> scalarMapFieldMask_append(fm, path)
    [] fm.t = "msgMap" -> msgMapFieldMask_append(st, fm, path)
    [] OTHER -> Res(addScalarPath(path), fm)

fieldMask_paths(fm) ==
  CASE fm.t = "msg" -> msgMask_paths(fm)
    [] fm.t = "msgList" -> msgListFieldMask_paths(fm)
    [] fm.t = "scalarMap" -> scalarMapFieldMask_paths(fm)
    [] fm.t = "msgMap" -> msgMapFieldMask_paths(fm)
    [] OTHER -> <<>>

\* ---------------------------------------------------------------- messages
EmptyMsg == [f |-> EmptyFn, u |-> <<>>]

\* The record of a nil pointer: an invalid message, which reads as a
\* record with no field set and cannot be written.
NilMsg == [f |-> EmptyFn, u |-> <<>>, valid |-> FALSE]

\* protoreflect.Message.IsValid
IsValid(msg) == "valid" \notin DOMAIN msg

IsListField(fd) == FieldKind[fd] \in {"scalarList", "msgList"}
IsMapField(fd) == FieldKind[fd] \in {"scalarMap", "msgMap"}

\* protoreflect.Message.Has: a list or map is populated when it is not
\* empty, any other field when it is set.
Has(msg, fd) ==
  /\ fd \in DOMAIN msg.f
  /\ IsListField(fd) => Len(msg.f[fd]) > 0
  /\ IsMapField(fd) => DOMAIN msg.f[fd] # {}

\* The fields visited by protoreflect.Message.Range.
Populated(msg) == {fd \in DOMAIN msg.f : Has(msg, fd)}

\* Message.Get for a scalar, Message.Mutable for a composite field: the
\* value held, or the zero value of the kind of the field.
ZeroValue(fd) ==
  CASE IsListField(fd) -> <<>>
    [] IsMapField(fd) -> EmptyFn
    [] FieldKind[fd] = "msg" -> EmptyMsg
    [] OTHER -> 0

Get(msg, fd) == IF fd \in DOMAIN msg.f THEN msg.f[fd] ELSE ZeroValue(fd)

\* List.IsValid / Map.IsValid of Get(fd): the container was allocated.
IsValidField(msg, fd) == fd \in DOMAIN msg.f

Set(msg, fd, v) == [msg EXCEPT !.f = (fd :> v) @@ msg.f]

Clear(msg, fd) ==
  [msg EXCEPT !.f = [g \in (DOMAIN msg.f) \ {fd} |-> msg.f[g]]]

SetUnknown(msg, u) == [msg EXCEPT !.u = u]

\* Map.Clear of every key in ks
MapClear(mp, ks) == [k \in (DOMAIN mp) \ ks |-> mp[k]]

\* settings.allow: the record type of the model has no extension fields.
allow(st, fd) == TRUE

\* ------------------------------------------------- generic copy and update
RECURSIVE copyMessage(_, _)
RECURSIVE updateMessage(_, _, _)

\* copyList / copyMap into the fresh container every caller passes
copyList(st, src, fd) ==
  IF FieldKind[fd] = "msgList"
  THEN [j \in 1..Len(src) |-> copyMessage(st, src[j])]
  ELSE src

copyMap(st, src, fd) ==
  IF FieldKind[fd] = "msgMap"
  THEN [k \in DOMAIN src |-> copyMessage(st, src[k])]
  ELSE src

\* copyMessage(dst, src) for the fresh dst every caller passes
copyMessage(st, src) ==
  [f |-> [fd \in {g \in Populated(src) : allow(st, g)} |->
            CASE IsListField(fd) -> copyList(st, src.f[fd], fd)
              [] IsMapField(fd) -> copyMap(st, src.f[fd], fd)
              [] FieldKind[fd] = "msg" -> copyMessage(st, src.f[fd])
              [] OTHER -> src.f[fd]],
   u |-> IF st.maskUnknowns = MaskRetainsUnknowns THEN src.u ELSE <<>>]

doUpdateUnknowns(st, dst, src) ==
  LET srcUnknowns == IF IsValid(src) THEN src.u ELSE <<>>
  IN  IF st.updateUnknowns = UpdateAppendsUnknowns /\ Len(srcUnknowns) > 0
      THEN SetUnknown(dst, dst.u \o srcUnknowns)
      ELSE IF st.updateUnknowns = UpdateReplacesUnknowns
        THEN SetUnknown(dst, srcUnknowns)
      ELSE dst

updateList(st, dst, src, fd) ==
  LET base == IF st.updateRepeated # UpdateAppendsRepeated THEN <<>> ELSE dst
  IN  IF FieldKind[fd] = "msgList"
      THEN base \o [j \in 1..Len(src) |-> updateMessage(st, EmptyMsg, src[j])]
      ELSE base \o src

updateMap(st, dst, src, fd) ==
  LET kept == MapClear(dst, (DOMAIN dst) \ (DOMAIN src))
  IN  IF FieldKind[fd] = "msgMap"
      THEN [k \in DOMAIN src |-> updateMessage(st, EmptyMsg, src[k])]
             @@ kept
      ELSE src @@ kept

updateField(st, dst, src, fd) ==
  IF ~allow(st, fd) THEN dst
  ELSE IF ~Has(src, fd)
    THEN (IF IsListField(fd) /\ st.updateRepeated = UpdateAppendsRepeated
          THEN dst ELSE Clear(dst, fd))
  ELSE CASE IsListField(fd) ->
              Set(dst, fd, updateList(st, Get(dst, fd), Get(src, fd), fd))
         [] IsMapField(fd) ->
              Set(dst, fd, updateMap(st, Get(dst, fd), Get(src, fd), fd))
         [] FieldKind[fd] = "msg" ->
              Set(dst, fd, updateMessage(st, Get(dst, fd), Get(src, fd)))
         [] OTHER -> Set(dst, fd, Get(src, fd))

\* the fields of the descriptor in declaration order
SchemaOrder == <<"x", "y", "l", "r", "s", "i", "m", "n">>

RECURSIVE updateFieldsFrom(_, _, _, _)
updateFieldsFrom(st, dst, src, j) ==
  IF j > Len(SchemaOrder) THEN dst
  ELSE updateFieldsFrom(st, updateField(st, dst, src, SchemaOrder[j]),
                        src, j + 1)

updateMessage(st, dst, src) ==
  doUpdateUnknowns(st, updateFieldsFrom(st, dst, src, 1), src)

\* ------------------------------------------------- mask, clone and update
RECURSIVE msgMask_mask(_, _, _)
RECURSIVE msgMask_clone(_, _, _)
RECURSIVE msgMask_update(_, _, _, _)
RECURSIVE fieldMask_mask(_, _, _)
RECURSIVE fieldMask_clone(_, _, _, _)
RECURSIVE fieldMask_update(_, _, _, _, _)
RECURSIVE msgMask_updateFields(_, _, _, _, _)

\* msgMapFieldMask.lookupMask
lookupMask(fm, k) ==
  IF ~fm.keyedNil /\ k \in DOMAIN fm.keyedMasks
  THEN [ok |-> TRUE, m |-> fm.keyedMasks[k]]
  ELSE IF ~fm.wildNil THEN [ok |-> TRUE, m |-> fm.wildMask]
  ELSE [ok |-> FALSE, m |-> NilMask]

\* The child mask found by mm.fields[string(fd.Name())]
HasFieldMask(st, mm, fd) == TextName(fd) \in DOMAIN mm.fields /\ allow(st, fd)

msgMask_mask(st, mm, msg) ==
  IF msgMask_complete(mm) THEN msg
  ELSE LET pop  == Populated(msg)
           gone == {fd \in pop : ~HasFieldMask(st, mm, fd)}
           out  == [f |-> [fd \in (DOMAIN msg.f) \ gone |->
                            IF fd \in pop
                            THEN fieldMask_mask(st, mm.fields[TextName(fd)],
                                                msg.f[fd])
                            ELSE msg.f[fd]],
                    u |-> msg.u]
       IN  IF st.maskUnknowns # MaskRetainsUnknowns
           THEN SetUnknown(out, <<>>) ELSE out

scalarMapFieldMask_mask(fm, val) ==
  IF scalarMapFieldMask_complete(fm) THEN val
  ELSE MapClear(val, {k \in DOMAIN val : k \notin fm.keys})

msgMapFieldMask_mask(st, fm, val) ==
  IF msgMapFieldMask_complete(fm) THEN val
  ELSE [k \in {j \in DOMAIN val : lookupMask(fm, j).ok} |->
          msgMask_mask(st, lookupMask(fm, k).m, val[k])]

msgListFieldMask_mask(st, fm, val) ==
  IF fm.nil THEN val
  ELSE [j \in 1..Len(val) |-> msgMask_mask(st, fm.msgMask, val[j])]

fieldMask_mask(st, fm, val) ==
  CASE fm.t = "msg" -> msgMask_mask(st, fm, val)
    [] fm.t = "msgList" -> msgListFieldMask_mask(st, fm, val)
    [] fm.t = "scalarMap" -> scalarMapFieldMask_mask(fm, val)
    [] fm.t = "msgMap" -> msgMapFieldMask_mask(st, fm, val)
    [] OTHER -> val

msgMask_clone(st, mm, msg) ==
  IF msgMask_complete(mm) THEN copyMessage(st, msg)
  ELSE [f |-> [fd \in {g \in Populated(msg) : HasFieldMask(st, mm, g)} |->
                 fieldMask_clone(st, mm.fields[TextName(fd)], fd, msg.f[fd])],
        u |-> IF st.maskUnknowns = MaskRetainsUnknowns THEN msg.u ELSE <<>>]

scalarMapFieldMask_clone(st, fm, fd, val) ==
  IF scalarMapFieldMask_complete(fm) THEN copyMap(st, val, fd)
  ELSE [k \in {j \in DOMAIN val : j \in fm.keys} |-> val[k]]

msgMapFieldMask_clone(st, fm, fd, val) ==
  IF msgMapFieldMask_complete(fm) THEN copyMap(st, val, fd)
  ELSE [k \in {j \in DOMAIN val : lookupMask(fm, j).ok} |->
          msgMask_clone(st, lookupMask(fm, k).m, val[k])]

msgListFieldMask_clone(st, fm, fd, val) ==
  IF fm.nil THEN copyList(st, val, fd)
  ELSE [j \in 1..Len(val) |-> msgMask_clone(st, fm.msgMask, val[j])]

fieldMask_clone(st, fm, fd, val) ==
  CASE fm.t = "msg" -> msgMask_clone(st, fm, val)
    [] fm.t = "msgList" -> msgListFieldMask_clone(st, fm, fd, val)
    [] fm.t = "scalarList" -> copyList(st, val, fd)
    [] fm.t = "scalarMap" -> scalarMapFieldMask_clone(st, fm, fd, val)
    [] fm.t = "msgMap" -> msgMapFieldMask_clone(st, fm, fd, val)
    [] OTHER -> val

\* ---- update(parent, value, exists); value is src.Get(fd), exists is
\* src.Has(fd); the result is the parent after the call.
\* scalarFieldMask.update leaving the field alone when the source has none
scalarFieldMask_update_keep(fd, parent, src) ==
  IF ~Has(src, fd) THEN parent
  ELSE Set(parent, fd, Get(src, fd))

scalarFieldMask_update(fd, parent, src) ==
  IF ~Has(src, fd) THEN Clear(parent, fd)
  ELSE Set(parent, fd, Get(src, fd))

\* msgFieldMask.update copying the record of the source whole
msgFieldMask_update_whole(st, fm, fd, parent, src) ==
  IF ~Has(src, fd) THEN Clear(parent, fd)
  ELSE Set(parent, fd, Get(src, fd))

msgFieldMask_update(st, fm, fd, parent, src) ==
  IF ~Has(src, fd) THEN Clear(parent, fd)
  ELSE Set(parent, fd,
           msgMask_update(st, fm, Get(parent, fd), Get(src, fd)))

\* scalarListFieldMask.update clearing the list for an absent source under
\* either policy
scalarListFieldMask_update_clear(st, fd, parent, src) ==
  IF ~Has(src, fd) \/ ~IsValidField(src, fd)
  THEN Clear(parent, fd)
  ELSE IF st.updateRepeated = UpdateAppendsRepeated
    THEN Set(parent, fd, Get(parent, fd) \o Get(src, fd))
  ELSE Set(parent, fd, Get(src, fd))

scalarListFieldMask_update(st, fd, parent, src) ==
  IF ~Has(src, fd) \/ ~IsValidField(src, fd)
  THEN (IF st.updateRepeated = UpdateReplacesRepeated
        THEN Clear(parent, fd) ELSE parent)
  ELSE IF st.updateRepeated = UpdateAppendsRepeated
    THEN Set(parent, fd, Get(parent, fd) \o Get(src, fd))
  ELSE Set(parent, fd, Get(src, fd))

msgListFieldMask_updateComplete(st, fd, parent, src) ==
  IF st.updateRepeated = UpdateAppendsRepeated
  THEN Set(parent, fd, Get(parent, fd) \o Get(src, fd))
  ELSE Set(parent, fd, Get(src, fd))

\* msgListFieldMask.update without the truncation of the destination list
msgListFieldMask_update_keep(st, fm, fd, parent, src) ==
  IF ~Has(src, fd) \/ ~IsValidField(src, fd)
  THEN (IF st.updateRepeated = UpdateReplacesRepeated
        THEN Clear(parent, fd) ELSE parent)
  ELSE IF msgListFieldMask_complete(fm)
    THEN msgListFieldMask_updateComplete(st, fd, parent, src)
  ELSE LET srcl == Get(src, fd)
       IN  Set(parent, fd,
               Get(parent, fd) \o [j \in 1..Len(srcl) |->
                                     msgMask_clone(st, fm.msgMask, srcl[j])])

msgListFieldMask_update(st, fm, fd, parent, src) ==
  IF ~Has(src, fd) \/ ~IsValidField(src, fd)
  THEN (IF st.updateRepeated = UpdateReplacesRepeated
        THEN Clear(parent, fd) ELSE parent)
  ELSE IF msgListFieldMask_complete(fm)
    THEN msgListFieldMask_updateComplete(st, fd, parent, src)
  ELSE LET srcl == Get(src, fd)
           base == IF st.updateRepeated = UpdateReplacesRepeated
                   THEN <<>> ELSE Get(parent, fd)
       IN  Set(parent, fd,
               base \o [j \in 1..Len(srcl) |->
                          msgMask_clone(st, fm.msgMask, srcl[j])])

scalarMapFieldMask_clear(fm, fd, parent) ==
  IF ~Has(parent, fd) THEN parent
  ELSE IF scalarMapFieldMask_complete(fm) THEN Clear(parent, fd)
  ELSE Set(parent, fd, MapClear(Get(parent, fd), fm.keys))

\* scalarMapFieldMask.update keeping the selected entries that the source
\* lacks
scalarMapFieldMask_update_keep(st, fm, fd, parent, src) ==
  IF ~IsValidField(src, fd) THEN scalarMapFieldMask_clear(fm, fd, parent)
  ELSE IF scalarMapFieldMask_complete(fm) THEN Set(parent, fd, Get(src, fd))
  ELSE LET srcm == Get(src, fd)
           dst0 == Get(parent, fd)
           sel  == {k \in DOMAIN srcm : k \in fm.keys}
       IN  Set(parent, fd, [k \in sel |-> srcm[k]] @@ dst0)

scalarMapFieldMask_update(st, fm, fd, parent, src) ==
  IF ~IsValidField(src, fd) THEN scalarMapFieldMask_clear(fm, fd, parent)
  ELSE IF scalarMapFieldMask_complete(fm) THEN Set(parent, fd, Get(src, fd))
  ELSE LET srcm == Get(src, fd)
           dst0 == Get(parent, fd)
           dst1 == MapClear(dst0, {k \in DOMAIN dst0 :
                                     k \in fm.keys /\ k \notin DOMAIN srcm})
           sel  == {k \in DOMAIN srcm : k \in fm.keys}
       IN  Set(parent, fd, [k \in sel |-> srcm[k]] @@ dst1)

\* msgMapFieldMask.clear removing only the keyed entries when a wild
\* submask exists
msgMapFieldMask_clear_keyed(fm, fd, parent) ==
  IF ~Has(parent, fd) THEN parent
  ELSE IF msgMapFieldMask_complete(fm) THEN Clear(parent, fd)
  ELSE Set(parent, fd, MapClear(Get(parent, fd), DOMAIN fm.keyedMasks))

msgMapFieldMask_clear(fm, fd, parent) ==
  IF ~Has(parent, fd) THEN parent
  ELSE IF msgMapFieldMask_complete(fm) \/ ~fm.wildNil THEN Clear(parent, fd)
  ELSE Set(parent, fd, MapClear(Get(parent, fd), DOMAIN fm.keyedMasks))

msgMapFieldMask_update(st, fm, fd, parent, src) ==
  IF ~IsValidField(src, fd) THEN msgMapFieldMask_clear(fm, fd, parent)
  ELSE IF msgMapFieldMask_complete(fm)
    THEN Set(parent, fd, updateMap(st, Get(parent, fd), Get(src, fd), fd))
  ELSE LET srcm == Get(src, fd)
           dst0 == Get(parent, fd)
           dst1 == MapClear(dst0, {k \in DOMAIN dst0 :
                              lookupMask(fm, k).ok /\ k \notin DOMAIN srcm})
           sel  == {k \in DOMAIN srcm : lookupMask(fm, k).ok}
       IN  Set(parent, fd,
               [k \in sel |->
                  msgMask_update(st, lookupMask(fm, k).m,
                       IF k \in DOMAIN dst1 THEN dst1[k] ELSE EmptyMsg,
                       srcm[k])] @@ dst1)

fieldMask_update(st, fm, fd, parent, src) ==
  CASE fm.t = "msg" -> msgFieldMask_update(st, fm, fd, parent, src)
    [] fm.t = "msgList" -> msgListFieldMask_update(st, fm, fd, parent, src)
    [] fm.t = "scalarList" -> scalarListFieldMask_update(st, fd, parent, src)
    [] fm.t = "scalarMap" -> scalarMapFieldMask_update(st, fm, fd, parent, src)
    [] fm.t = "msgMap" -> msgMapFieldMask_update(st, fm, fd, parent, src)
    [] OTHER -> scalarFieldMask_update(fd, parent, src)

\* for name, mask := range mm.fields { mask.update(dst, ...) }: every
\* iteration writes one field of dst, so the order does not matter.
msgMask_updateFields(st, mm, names, dst, src) ==
  IF names = <<>> THEN dst
  ELSE LET fd == lookupField(st, names[1]).fd
       IN  msgMask_updateFields(st, mm, Tail(names),
             fieldMask_update(st, mm.fields[names[1]], fd, dst, src), src)

\* msgMask.update running the generic update over every field of the
\* schema before the fields of the mask
msgMask_update_schema(st, mm, dst, src) ==
  IF msgMask_complete(mm) THEN updateMessage(st, dst, src)
  ELSE doUpdateUnknowns(st,
         msgMask_updateFields(st, mm, SortStrings(DOMAIN mm.fields),
                              updateMessage(st, dst, src), src),
         src)

\* msgMask.update leaving the unknown bytes alone under an incomplete mask
msgMask_update_fieldsOnly(st, mm, dst, src) ==
  IF msgMask_complete(mm) THEN updateMessage(st, dst, src)
  ELSE msgMask_updateFields(st, mm, SortStrings(DOMAIN mm.fields), dst, src)

msgMask_update(st, mm, dst, src) ==
  IF msgMask_complete(mm) THEN updateMessage(st, dst, src)
  ELSE doUpdateUnknowns(st,
         msgMask_updateFields(st, mm, SortStrings(DOMAIN mm.fields), dst, src),
         src)

\* ------------------------------------------------------------------ facade
\* New(paths): init with the first path, append the others; no mask is
\* returned when a path fails.
RECURSIVE NewLoop(_, _, _)
NewLoop(st, r, rest) ==
  IF r.err # "ok" THEN Res(r.err, newMsgMask)
  ELSE IF rest = <<>> THEN Res("ok", r.m)
  ELSE NewLoop(st, msgMask_append(st, r.m, rest[1]), Tail(rest))

New(st, paths) ==
  IF Len(paths) = 0 THEN Res("ok", newMsgMask)
  ELSE NewLoop(st, msgMask_init(st, newMsgMask, paths[1]), Tail(paths))

\* FieldMask.Paths
Paths(mm) ==
  LET paths == msgMask_paths(mm)
  IN  IF Len(paths) > 0 THEN paths ELSE << <<"*">> >>

\* FieldMask.Mask, FieldMask.Clone, FieldMask.Update
Mask(st, mm, msg) == msgMask_mask(st, mm, msg)
Clone(st, mm, msg) == msgMask_clone(st, mm, msg)
Update(st, mm, dst, src) == msgMask_update(st, mm, dst, src)

\* ------------------------------------------------------------------ inputs
\* The paths a caller gives to New and Append: one of two vocabularies.
\* MapPaths: the root wildcard and the wildcard and keyed paths of the map
\* of records m, then an unknown field and an empty segment below m and a
\* scalar subpath below the wildcard of m.
MapPaths ==
  { <<"*">>,
    <<"m">>,
    <<"m", ".", "*">>,
    <<"m", ".", "*", ".", "x">>,
    <<"m", ".", "*", ".", "*">>,
    <<"m", ".", "k">>,
    <<"m", ".", "k", ".", "x">>,
    <<"m", ".", "k", ".", "y">>,
    <<"m", ".", "k", ".", "q">>,
    <<"m", ".", ".", "x">>,
    <<"m", ".", "*", ".", "x", ".", "q">> }

\* MixedPaths: a scalar, the nested record, the list of records, a key of
\* the scalar map and of the record map, then an unknown field, a scalar
\* subpath, an indexed list path, an unparsable int32 key, the wildcard
\* of the scalar map and a field name with a dot and nothing after it.
MixedPaths ==
  { <<"x">>,
    <<"x", ".">>,
    <<"n">>,
    <<"n", ".", "x">>,
    <<"r">>,
    <<"r", ".", "*", ".", "x">>,
    <<"s", ".", "k">>,
    <<"m", ".", "k", ".", "x">>,
    <<"q">>,
    <<"x", ".", "z">>,
    <<"l", ".", "0">>,
    <<"i", ".", "z">>,
    <<"s", ".", "*">> }

\* ListPaths: the list of scalars and the list of records, selected whole,
\* by an index and below the wildcard, then the nested record and
\* subpaths below a scalar.
ListPaths ==
  { <<"l">>,
    <<"l", ".", "0">>,
    <<"l", ".", "*", ".", "x">>,
    <<"r">>,
    <<"r", ".", "0">>,
    <<"r", ".", "*", ".", "x">>,
    <<"x", ".", "z">>,
    <<"n">>,
    <<"n", ".", "x">>,
    <<"n", ".", "x", ".", "z">> }

\* KeyPaths: the map with int32 keys selected whole, by its wildcard and by
\* keys, a key that is no number and one beyond the int32 range, then keys
\* of the string maps and the wildcard of the map of records.
KeyPaths ==
  { <<"i">>,
    <<"i", ".", "*">>,
    <<"i", ".", "1">>,
    <<"i", ".", "2">>,
    <<"i", ".", "1", "0">>,
    <<"i", ".", "z">>,
    <<"i", ".", "2", "1", "4", "7", "4", "8", "3", "6", "4", "8">>,
    <<"s", ".", "k">>,
    <<"s", ".", "j">>,
    <<"m", ".", "k", ".", "x">>,
    <<"m", ".", "*", ".", "y">> }

\* QuotedPaths: keys of the maps between back quotes, the key "*" among
\* them, beside the wildcard and a bare key, and a quote left open.
QuotedPaths ==
  { <<"s", ".", "*">>,
    <<"s", ".", BQ, "*", BQ>>,
    <<"s", ".", BQ, "k", BQ>>,
    <<"s", ".", "k">>,
    <<"s", ".", BQ, "k">>,
    <<"i", ".", BQ, "1", BQ>>,
    <<"m", ".", BQ, "*", BQ, ".", "x">>,
    <<"m", ".", "*", ".", "y">>,
    <<"m", ".", BQ, "k", BQ>> }

Vocabularies == {MapPaths, MixedPaths, ListPaths, KeyPaths, QuotedPaths}

\* One path for every field of the record type, in declaration order.
AllFieldPaths ==
  << <<"x">>, <<"y">>, <<"l">>, <<"r">>, <<"s">>, <<"i">>, <<"m">>, <<"n">> >>

\* The path lists a caller gives to New: none, one path of the vocabulary
\* or, with the list vocabulary, the paths of all fields.
PathLists(v) ==
  {<<>>} \cup {<<p>> : p \in v}
         \cup (IF v = ListPaths THEN {AllFieldPaths} ELSE {})

\* The settings a mask is constructed with.
SettingsSet ==
  [fieldName : {TextFieldName},
   strict : {FALSE},
   maskUnknowns : {MaskRemovesUnknowns, MaskRetainsUnknowns},
   updateUnknowns : {UpdateRetainsUnknowns, UpdateAppendsUnknowns,
                     UpdateReplacesUnknowns},
   updateRepeated : {UpdateReplacesRepeated, UpdateAppendsRepeated}]

\* Records of the schema.  Sub records with and without unknown bytes.
SubA == [f |-> ("x" :> 1) @@ ("y" :> 2), u |-> <<>>]
SubB == [f |-> ("x" :> 3) @@ ("y" :> 4), u |-> <<8>>]
SubC == [f |-> ("x" :> 5), u |-> <<>>]
KeyK == <<"k">>
KeyJ == <<"j">>
KeyZ == <<"z">>

\* every field set, unknown bytes at the root, in the nested record, in a
\* list element and in a map entry
MsgFull ==
  [f |-> ("x" :> 1) @@ ("y" :> 2) @@ ("l" :> <<1, 2>>)
         @@ ("r" :> <<SubA, SubB>>)
         @@ ("s" :> ((KeyK :> 1) @@ (KeyJ :> 2)))
         @@ ("i" :> ((1 :> 1) @@ (2 :> 2)))
         @@ ("m" :> ((KeyK :> SubB) @@ (KeyJ :> SubA)))
         @@ ("n" :> SubB),
   u |-> <<7>>]

\* other values, other map keys, some fields unset
MsgOther ==
  [f |-> ("x" :> 6) @@ ("l" :> <<3>>)
         @@ ("r" :> <<SubC>>)
         @@ ("s" :> ((KeyJ :> 7) @@ (KeyZ :> 8)))
         @@ ("m" :> ((KeyK :> SubC) @@ (KeyZ :> SubA)))
         @@ ("n" :> SubC),
   u |-> <<6>>]

\* only scalars and the map entries under other keys
MsgSparse ==
  [f |-> ("y" :> 9) @@ ("s" :> (KeyK :> 9))
         @@ ("m" :> ((KeyJ :> SubB) @@ (KeyZ :> SubC))),
   u |-> <<>>]

\* every field set, no unknown bytes at any level, sub records with and
\* without the field y
MsgClean ==
  [f |-> ("x" :> 1) @@ ("y" :> 2) @@ ("l" :> <<1, 2>>)
         @@ ("r" :> <<SubA, SubC>>)
         @@ ("s" :> ((KeyK :> 1) @@ (KeyJ :> 2)))
         @@ ("i" :> ((1 :> 1) @@ (2 :> 2)))
         @@ ("m" :> ((KeyK :> SubA) @@ (KeyJ :> SubC)))
         @@ ("n" :> SubA),
   u |-> <<>>]

Records == {MsgFull, MsgOther}

\* (dst, src) pairs given to Update
UpdatePairs ==
  { <<MsgFull, MsgOther>>, <<MsgOther, MsgFull>>,
    <<MsgFull, MsgSparse>>, <<MsgFull, EmptyMsg>>, <<MsgFull, NilMsg>>,
    <<MsgOther, MsgSparse>>, <<EmptyMsg, MsgClean>> }

\* ----------------------------------------------------------- state machine
VARIABLES
  settings,   \* the settings of the mask, fixed by New
  vocab,      \* the paths the caller draws from
  built,      \* New has returned a mask
  noPaths,    \* New was given an empty path list
  fm,         \* the root msgMask of the FieldMask
  added,      \* the paths New and Append have accepted so far
  last,       \* [op, res]: the call that returned and its error ("ok": nil)
  out,        \* what a Mask / Clone / Update / Paths call returned
  input,      \* the path string that is left to parse
  parsed      \* [err, path, rest]: what nextPath returned last

vars == <<settings, vocab, built, noPaths, fm, added, last, out, input, parsed>>

\* nextPath was not called yet.
NoParse == [err |-> "none", path |-> <<>>, rest |-> <<>>]

NoOut == [msg |-> EmptyMsg, src |-> EmptyMsg, res |-> EmptyMsg, paths |-> <<>>]

Init ==
  /\ settings \in SettingsSet
  /\ vocab \in Vocabularies
  /\ built = FALSE
  /\ noPaths = FALSE
  /\ fm = newMsgMask
  /\ added = {}
  /\ last = [op |-> "none", res |-> "ok"]
  /\ out = NoOut
  /\ input = <<>>
  /\ parsed = NoParse

\* The caller can make a call: the result of the previous call was taken.
Ready == last.op \in {"none", "Return"}

\* New(paths, options...) with no path or with one path; the other paths
\* of a longer list are appended exactly as Append does.
DoNew(paths) ==
  /\ ~built
  /\ Ready
  /\ LET r == New(settings, paths)
     IN  /\ built' = (r.err = "ok")
         /\ noPaths' = (paths = <<>>)
         /\ fm' = r.m
         /\ added' = IF r.err = "ok" THEN toSet(paths) ELSE {}
         /\ last' = [op |-> "New", res |-> r.err]
  /\ out' = NoOut
  /\ UNCHANGED <<settings, vocab>>
  /\ UNCHANGED <<input, parsed>>

\* FieldMask.Append(path)
DoAppend(path) ==
  /\ built
  /\ Ready
  /\ Cardinality(added) < MaxPaths
  /\ LET r == msgMask_append(settings, fm, path)
     IN  /\ fm' = r.m
         /\ added' = IF r.err = "ok" THEN added \cup {path} ELSE added
         /\ last' = [op |-> "Append", res |-> r.err]
  /\ out' = NoOut
  /\ UNCHANGED <<settings, vocab, built, noPaths>>
  /\ UNCHANGED <<input, parsed>>

DoMask(msg) ==
  /\ built
  /\ Ready
  /\ last' = [op |-> "Mask", res |-> "ok"]
  /\ out' = [NoOut EXCEPT !.msg = msg, !.res = Mask(settings, fm, msg)]
  /\ UNCHANGED <<settings, vocab, built, noPaths, fm, added>>
  /\ UNCHANGED <<input, parsed>>

DoClone(msg) ==
  /\ built
  /\ Ready
  /\ last' = [op |-> "Clone", res |-> "ok"]
  /\ out' = [NoOut EXCEPT !.msg = msg, !.res = Clone(settings, fm, msg)]
  /\ UNCHANGED <<settings, vocab, built, noPaths, fm, added>>
  /\ UNCHANGED <<input, parsed>>

DoUpdate(dst, src) ==
  /\ built
  /\ Ready
  /\ last' = [op |-> "Update", res |-> "ok"]
  /\ out' = [NoOut EXCEPT !.msg = dst, !.src = src,
                          !.res = Update(settings, fm, dst, src)]
  /\ UNCHANGED <<settings, vocab, built, noPaths, fm, added>>
  /\ UNCHANGED <<input, parsed>>

\* FieldMask.Paths leaving in the mask only what it emitted, as it would
\* if remove deleted the paths of the wild submask from the keyed
\* submasks themselves
DoPaths_inPlace ==
  /\ built
  /\ Ready
  /\ last' = [op |-> "Paths", res |-> "ok"]
  /\ out' = [NoOut EXCEPT !.paths = Paths(fm)]
  /\ fm' = New(settings, Paths(fm)).m
  /\ UNCHANGED <<settings, vocab, built, noPaths, added>>
  /\ UNCHANGED <<input, parsed>>

DoPaths ==
  /\ built
  /\ Ready
  /\ last' = [op |-> "Paths", res |-> "ok"]
  /\ out' = [NoOut EXCEPT !.paths = Paths(fm)]
  /\ UNCHANGED <<settings, vocab, built, noPaths, fm, added>>
  /\ UNCHANGED <<input, parsed>>

\* The caller takes the result of the call that returned.  A panic ends
\* the program.
DoReturn ==
  /\ ~Ready
  /\ last.res # "panic"
  /\ last' = [op |-> "Return", res |-> "ok"]
  /\ out' = NoOut
  /\ UNCHANGED <<settings, vocab, built, noPaths, fm, added>>
  /\ UNCHANGED <<input, parsed>>

Next ==
  \/ \E paths \in PathLists(vocab) : DoNew(paths)
  \/ \E path \in vocab : DoAppend(path)
  \/ \E msg \in Records : DoMask(msg)
  \/ \E msg \in Records : DoClone(msg)
  \/ \E pair \in UpdatePairs : DoUpdate(pair[1], pair[2])
  \/ DoPaths
  \/ DoReturn

Spec == Init /\ [][Next]_vars

\* The same machine under the four field-name modes, the other settings at
\* their defaults, with paths that name the field y by its text name and
\* by its JSON name Y, at the root and below the record n.
NamePaths ==
  { <<"y">>, <<"Y">>, <<"x">>, <<"n">>,
    <<"n", ".", "y">>, <<"n", ".", "Y">> }

NameSettingsSet ==
  [fieldName : {TextFieldName, JSONFieldName},
   strict : BOOLEAN,
   maskUnknowns : {MaskRemovesUnknowns},
   updateUnknowns : {UpdateRetainsUnknowns},
   updateRepeated : {UpdateReplacesRepeated}]

NameInit ==
  /\ settings \in NameSettingsSet
  /\ vocab = NamePaths
  /\ built = FALSE
  /\ noPaths = FALSE
  /\ fm = newMsgMask
  /\ added = {}
  /\ last = [op |-> "none", res |-> "ok"]
  /\ out = NoOut
  /\ input = <<>>
  /\ parsed = NoParse

NameSpec == NameInit /\ [][Next]_vars

\* nextPath applied to path strings, as the loop of Parse applies it: to
\* the whole string first and then to the rest that the call before
\* returned, until a call fails or leaves no rest.
MaxInput == 5
Alphabet == {"x", ".", ",", "*", BQ}
Inputs == UNION {[1..n -> Alphabet] : n \in 0..MaxInput}

ParseInit ==
  /\ settings \in NameSettingsSet
  /\ settings.fieldName = TextFieldName /\ ~settings.strict
  /\ vocab = {}
  /\ built = FALSE
  /\ noPaths = FALSE
  /\ fm = newMsgMask
  /\ added = {}
  /\ last = [op |-> "none", res |-> "ok"]
  /\ out = NoOut
  /\ input \in Inputs
  /\ parsed = NoParse

DoNextPath ==
  /\ \/ parsed = NoParse
     \/ parsed.err = "ok" /\ parsed.rest # <<>>
  /\ parsed' = nextPath(input)
  /\ input' = IF parsed'.err = "ok" THEN parsed'.rest ELSE input
  /\ UNCHANGED <<settings, vocab, built, noPaths, fm, added, last, out>>

ParseNext == DoNextPath

ParseSpec == ParseInit /\ [][ParseNext]_vars

\* ------------------------------------------------------------ comparisons
\* The comparison of the tests (proto.Equal, cmp.Diff under
\* protocmp.Transform): an empty list or map equals an absent one, and
\* unknown bytes are compared, at every level.
RECURSIVE Norm(_)
Norm(msg) ==
  [f |-> [fd \in Populated(msg) |->
            CASE FieldKind[fd] = "msg" -> Norm(msg.f[fd])
              [] FieldKind[fd] = "msgList" ->
                   [j \in 1..Len(msg.f[fd]) |-> Norm(msg.f[fd][j])]
              [] FieldKind[fd] = "msgMap" ->
                   [k \in DOMAIN msg.f[fd] |-> Norm(msg.f[fd][k])]
              [] OTHER -> msg.f[fd]],
   u |-> msg.u]

ProtoEqual(a, b) == Norm(a) = Norm(b)

\* ------------------------------------------------------------------ claims
\* C1: Mask/Clone equivalence.  For every mask and every record r, also a
\* record with unknown bytes at the root or inside a fully selected nested
\* record, list element or map entry, a copy of r after Mask equals
\* Clone(r).
C1_MaskEqualsClone ==
  last.op = "Mask" => ProtoEqual(out.res, Clone(settings, fm, out.msg))

\* Every field, list-element subfield and map-entry subfield populated in
\* a is populated in b.
RECURSIVE SubMsg(_, _)
SubMsg(a, b) ==
  \A fd \in Populated(a) :
    /\ Has(b, fd)
    /\ CASE FieldKind[fd] = "msg" -> SubMsg(a.f[fd], b.f[fd])
         [] FieldKind[fd] = "msgList" ->
              /\ Len(a.f[fd]) <= Len(b.f[fd])
              /\ \A j \in 1..Len(a.f[fd]) : SubMsg(a.f[fd][j], b.f[fd][j])
         [] FieldKind[fd] = "msgMap" ->
              \A k \in DOMAIN a.f[fd] :
                k \in DOMAIN b.f[fd] /\ SubMsg(a.f[fd][k], b.f[fd][k])
         [] FieldKind[fd] = "scalarMap" ->
              DOMAIN a.f[fd] \subseteq DOMAIN b.f[fd]
         [] OTHER -> TRUE

\* C2: monotonicity.  A successful Append never shrinks the selection:
\* every field, list-element subfield and map-entry subfield that Mask and
\* Clone kept before the call is still kept after it.
C2_AppendNeverShrinks ==
  [][(last'.op = "Append" /\ last'.res = "ok") =>
       \A r \in Records :
         /\ SubMsg(Mask(settings, fm, r), Mask(settings, fm', r))
         /\ SubMsg(Clone(settings, fm, r), Clone(settings, fm', r))]_vars

\* C3: a failed Append is atomic.  Whenever Append returns an error, at
\* any depth of the mask tree, the mask is exactly as before the call, so
\* Paths and the results of Mask, Clone and Update are unchanged.
C3_FailedAppendAtomic ==
  [][(last'.op = "Append" /\ last'.res \notin {"ok", "panic"}) =>
       /\ fm' = fm
       /\ Paths(fm') = Paths(fm)
       /\ \A r \in Records :
            /\ Mask(settings, fm', r) = Mask(settings, fm, r)
            /\ Clone(settings, fm', r) = Clone(settings, fm, r)]_vars

\* An Append failed below an existing keyed submask of a map of records.
C3_Witness ==
  /\ last.op = "Append"
  /\ last.res = "unknown"
  /\ ~fm.nil
  /\ <<"m">> \in DOMAIN fm.fields
  /\ <<"k">> \in DOMAIN fm.fields[<<"m">>].keyedMasks

\* The mask mm and the mask built from paths give the same Paths and the
\* same Mask, Clone and Update results.
SameBehavior(st, mm, other) ==
  /\ Paths(other) = Paths(mm)
  /\ \A r \in Records :
       /\ Mask(st, other, r) = Mask(st, mm, r)
       /\ Clone(st, other, r) = Clone(st, mm, r)
  /\ \A pair \in UpdatePairs :
       Update(st, other, pair[1], pair[2]) = Update(st, mm, pair[1], pair[2])

\* C4: round trip of Paths.  Building a mask from the Paths of a mask
\* succeeds and gives a mask with the same Paths and the same Mask, Clone
\* and Update results on every record.
C4_PathsRoundTrip ==
  last.op = "Paths" =>
    LET again == New(settings, out.paths)
    IN  again.err = "ok" /\ SameBehavior(settings, fm, again.m)

\* C5: wildcard absorption.  For a map field f, a path list holding the
\* bare wildcard selection (f or f.*) together with keyed paths (f.k,
\* f.k.sub), in any order, gives Paths() = [f] and the Mask and Clone
\* output of f.* alone.
C5_Absorbed(f, wild, keyed) ==
  (/\ built
   /\ ~noPaths
   /\ added \subseteq wild \cup keyed
   /\ added \cap wild # {}
   /\ added \cap keyed # {})
  => LET alone == New(settings, << <<f, ".", "*">> >>).m
     IN  /\ last.op = "Paths" => out.paths = << <<f>> >>
         /\ last.op = "Mask" => out.res = Mask(settings, alone, out.msg)
         /\ last.op = "Clone" => out.res = Clone(settings, alone, out.msg)

C5_WildcardAbsorbs ==
  /\ C5_Absorbed("m", {<<"m">>, <<"m", ".", "*">>},
                 {<<"m", ".", "k">>, <<"m", ".", "k", ".", "x">>,
                  <<"m", ".", "k", ".", "y">>})
  /\ C5_Absorbed("s", {<<"s", ".", "*">>}, {<<"s", ".", "k">>})

\* Paths was called on a mask built from m.*, m.k and m.k.x.
C5_Witness ==
  /\ last.op = "Paths"
  /\ added = {<<"m", ".", "*">>, <<"m", ".", "k">>,
              <<"m", ".", "k", ".", "x">>}
  /\ out.paths = << <<"m">> >>

\* C6: keys inherit the wildcard.  When the mask of the map of records m
\* has a wild submask, an entry under an explicitly named key keeps every
\* subfield that an entry under any other key keeps, whether the keyed path
\* came before or after the wildcard path.
C6_KeysInheritWildcard ==
  (/\ last.op \in {"Mask", "Clone"}
   /\ ~fm.nil
   /\ <<"m">> \in DOMAIN fm.fields
   /\ ~fm.fields[<<"m">>].wildNil)
  => \A k \in DOMAIN out.msg.f["m"] \cap
              DOMAIN fm.fields[<<"m">>].keyedMasks :
       /\ k \in DOMAIN out.res.f["m"]
       /\ SubMsg(msgMask_mask(settings, fm.fields[<<"m">>].wildMask,
                              out.msg.f["m"][k]),
                 out.res.f["m"][k])

\* The sequences that hold every element of S once.
Orders(S) ==
  {p \in [1..Cardinality(S) -> S] :
     \A a, b \in 1..Cardinality(S) : a # b => p[a] # p[b]}

WildAndKeyedPaths ==
  { <<"m", ".", "*">>, <<"m", ".", "*", ".", "x">>,
    <<"m", ".", "*", ".", "*">>, <<"m", ".", "k">>,
    <<"m", ".", "k", ".", "x">>, <<"m", ".", "k", ".", "y">> }

\* C7: order independence.  Two masks built from the same set of wildcard
\* paths (m.*, m.*.x, m.*.*) and keyed paths (m.k, m.k.x, m.k.y) added in
\* different orders, both constructions succeeding, have equal Paths and
\* equal Mask and Clone results on every record.
C7_OrderIndependent ==
  (/\ last.op \in {"New", "Append"}
   /\ last.res = "ok"
   /\ ~noPaths
   /\ added \subseteq WildAndKeyedPaths)
  => \A p \in Orders(added) :
       LET other == New(settings, p)
       IN  other.err = "ok" =>
             /\ Paths(other.m) = Paths(fm)
             /\ \A r \in Records :
                  /\ Mask(settings, other.m, r) = Mask(settings, fm, r)
                  /\ Clone(settings, other.m, r) = Clone(settings, fm, r)

\* C8: a fully selecting mask is the identity.  For a mask built from *,
\* from a path list with * at any position or from an empty path list,
\* Paths() is ["*"], Mask leaves the record unchanged and Clone returns a
\* record equal to its input.
C8_FullMaskIsIdentity ==
  (built /\ (noPaths \/ <<"*">> \in added))
  => /\ last.op = "Paths" => out.paths = << <<"*">> >>
     /\ last.op = "Mask" => out.res = out.msg
     /\ last.op = "Clone" => ProtoEqual(out.res, out.msg)

\* The field fd is the same in the records a and b.
SameField(a, b, fd) ==
  /\ fd \in DOMAIN a.f <=> fd \in DOMAIN b.f
  /\ fd \in DOMAIN a.f => a.f[fd] = b.f[fd]

IsPrefix(a, b) == Len(a) <= Len(b) /\ \A j \in 1..Len(a) : a[j] = b[j]

\* The frame of an update of the record before into after from src under
\* the incomplete mask mm: the fields mm does not name are the same, and
\* so below every nested record and map entry that the update descends to
\* (the source holds it); the entries of a map under keys without a
\* submask are the same; the elements a list held stay in front when
\* elements are appended.
RECURSIVE FrameHolds(_, _, _, _, _)
FrameHolds(st, mm, before, after, src) ==
  mm.nil \/
  (/\ \A fd \in FieldNames :
        TextName(fd) \notin DOMAIN mm.fields => SameField(before, after, fd)
   /\ \A name \in DOMAIN mm.fields :
        LET fd == lookupField(st, name).fd
            sub == mm.fields[name]
        IN  CASE sub.t = "msg" ->
                   Has(src, fd) =>
                     /\ fd \in DOMAIN after.f
                     /\ FrameHolds(st, sub, Get(before, fd), after.f[fd],
                                   src.f[fd])
              [] sub.t = "msgMap" ->
                   (IsValidField(src, fd) /\ ~msgMapFieldMask_complete(sub))
                   => /\ fd \in DOMAIN after.f
                      /\ \A k \in DOMAIN Get(before, fd) :
                           ~lookupMask(sub, k).ok =>
                             /\ k \in DOMAIN after.f[fd]
                             /\ after.f[fd][k] = before.f[fd][k]
                      /\ \A k \in DOMAIN src.f[fd] :
                           lookupMask(sub, k).ok =>
                             /\ k \in DOMAIN after.f[fd]
                             /\ FrameHolds(st, lookupMask(sub, k).m,
                                  IF k \in DOMAIN Get(before, fd)
                                  THEN before.f[fd][k] ELSE EmptyMsg,
                                  after.f[fd][k], src.f[fd][k])
              [] sub.t = "scalarMap" ->
                   (IsValidField(src, fd) /\ ~scalarMapFieldMask_complete(sub))
                   => /\ fd \in DOMAIN after.f
                      /\ \A k \in DOMAIN Get(before, fd) :
                           k \notin sub.keys =>
                             /\ k \in DOMAIN after.f[fd]
                             /\ after.f[fd][k] = before.f[fd][k]
              [] sub.t \in {"msgList", "scalarList"} ->
                   st.updateRepeated = UpdateAppendsRepeated =>
                     /\ Has(before, fd) => fd \in DOMAIN after.f
                     /\ IsPrefix(Get(before, fd), Get(after, fd))
              [] OTHER -> TRUE)

KeyedUpdate(before, after, srcm, Matches(_), Updated(_)) ==
  \A k \in DOMAIN before \cup DOMAIN srcm \cup DOMAIN after :
    /\ (Matches(k) /\ k \notin DOMAIN srcm) => k \notin DOMAIN after
    /\ (Matches(k) /\ k \in DOMAIN srcm) =>
         k \in DOMAIN after /\ after[k] = Updated(k)
    /\ ~Matches(k) =>
         /\ k \in DOMAIN before <=> k \in DOMAIN after
         /\ k \in DOMAIN before => after[k] = before[k]

\* C10: map update with keyed selection.  For a map field whose source map
\* is present, Update deletes every dst entry whose key matches a submask
\* and is absent from src, overwrites (scalar value) or recursively updates
\* (record value) every dst entry whose key matches a submask and is
\* present in src, and leaves every dst entry whose key matches no submask
\* unchanged, even when src holds another value under that key.
C10_MapUpdateKeyed ==
  (last.op = "Update" /\ ~fm.nil)
  => /\ (<<"s">> \in DOMAIN fm.fields /\ IsValidField(out.src, "s")
         /\ ~fm.fields[<<"s">>].nil)
        => LET sub == fm.fields[<<"s">>]
               Matches(k) == k \in sub.keys
               Updated(k) == out.src.f["s"][k]
           IN  KeyedUpdate(Get(out.msg, "s"), Get(out.res, "s"),
                           out.src.f["s"], Matches, Updated)
     /\ (<<"m">> \in DOMAIN fm.fields /\ IsValidField(out.src, "m")
         /\ ~msgMapFieldMask_complete(fm.fields[<<"m">>]))
        => LET sub == fm.fields[<<"m">>]
               before == Get(out.msg, "m")
               Matches(k) == lookupMask(sub, k).ok
               Updated(k) ==
                 msgMask_update(settings, lookupMask(sub, k).m,
                                IF k \in DOMAIN before THEN before[k]
                                ELSE EmptyMsg,
                                out.src.f["m"][k])
           IN  KeyedUpdate(before, Get(out.res, "m"), out.src.f["m"],
                           Matches, Updated)

\* Update under the mask s.k where dst holds k and j and src holds j and z:
\* k was deleted and j kept its dst value.
C10_Witness ==
  /\ last.op = "Update"
  /\ added = {<<"s", ".", "k">>}
  /\ out.msg = MsgFull
  /\ out.src = MsgOther
  /\ out.res.f["s"] = (KeyJ :> 2)

\* The list an update leaves: the elements the source contributes, after
\* the elements the destination held when elements are appended.
ListAfter(st, before, contributed) ==
  IF st.updateRepeated = UpdateAppendsRepeated
  THEN before \o contributed ELSE contributed

C12_ListUpdateAbsent ==
  last.op = "Update"
  => \A fd \in {"l", "r"} :
       ((fm.nil \/ <<fd>> \in DOMAIN fm.fields) /\ ~Has(out.src, fd))
       => IF settings.updateRepeated = UpdateReplacesRepeated
          THEN fd \notin DOMAIN out.res.f
          ELSE SameField(out.msg, out.res, fd)

\* Update under the mask l from a source without l, elements appended:
\* the list of dst is as it was.
C12_Witness ==
  /\ last.op = "Update"
  /\ added = {<<"l">>}
  /\ settings.updateRepeated = UpdateAppendsRepeated
  /\ out.msg = MsgFull
  /\ out.src = MsgSparse
  /\ out.res.f["l"] = <<1, 2>>

\* The map field fd of before after an update from a source without the
\* map: whole tells that the mask of the field is complete or has a wild
\* submask, keyed is the set of keys with a keyed submask.
MapAfterAbsent(before, after, fd, whole, keyed) ==
  IF ~Has(before, fd) THEN SameField(before, after, fd)
  ELSE IF whole THEN fd \notin DOMAIN after.f
  ELSE /\ fd \in DOMAIN after.f
       /\ after.f[fd] = [k \in (DOMAIN before.f[fd]) \ keyed |->
                           before.f[fd][k]]

\* C13: map update with an absent source map.  If dst does not have the
\* field nothing changes; otherwise, if the mask of the field is complete
\* or has a wild submask, the whole destination map field is cleared; if
\* it has only keyed submasks, exactly the dst entries with a keyed
\* submask are removed and all other dst entries remain.
C13_MapUpdateAbsent ==
  last.op = "Update"
  => /\ \A fd \in {"s", "i"} :
          ((fm.nil \/ <<fd>> \in DOMAIN fm.fields)
           /\ ~IsValidField(out.src, fd))
          => MapAfterAbsent(out.msg, out.res, fd,
                fm.nil \/ fm.fields[<<fd>>].nil,
                IF fm.nil THEN {} ELSE fm.fields[<<fd>>].keys)
     /\ ((fm.nil \/ <<"m">> \in DOMAIN fm.fields)
         /\ ~IsValidField(out.src, "m"))
        => MapAfterAbsent(out.msg, out.res, "m",
              fm.nil \/ msgMapFieldMask_complete(fm.fields[<<"m">>])
                     \/ ~fm.fields[<<"m">>].wildNil,
              IF fm.nil THEN {} ELSE DOMAIN fm.fields[<<"m">>].keyedMasks)

\* Update under the mask m.k.x from the empty record: the entry of dst
\* under k is gone, the entry under j is as it was.
C13_Witness ==
  /\ last.op = "Update"
  /\ added = {<<"m", ".", "k", ".", "x">>}
  /\ out.msg = MsgFull
  /\ out.src = EmptyMsg
  /\ out.res.f["m"] = (KeyJ :> SubA)

\* C14: the complete mask equals the generic routine.  Update with the
\* complete mask produces the same destination as Update with a mask that
\* names every field of the record type explicitly, each child mask
\* complete, for every dst, every src (also with unknown bytes inside list
\* elements and map entries) and every repeated-field and unknown-field
\* policy.
C14_CompleteEqualsGeneric ==
  (/\ last.op = "Update"
   /\ ~fm.nil
   /\ DOMAIN fm.fields = {TextName(fd) : fd \in FieldNames}
   /\ \A name \in DOMAIN fm.fields : fieldMask_complete(fm.fields[name]))
  => ProtoEqual(out.res, Update(settings, newMsgMask, out.msg, out.src))

\* Paths to the map with int32 keys whose key segment is no number or is
\* beyond the int32 range.
BadKeyPaths ==
  { <<"i", ".", "z">>,
    <<"i", ".", "2", "1", "4", "7", "4", "8", "3", "6", "4", "8">> }

\* C15 as stated: constructing a mask, or appending to one, with a map
\* path whose key segment cannot be parsed under the key kind of the map
\* fails with an error, whatever paths for the same map field were added
\* before it.
C15_BadKeyFails ==
  [][\A p \in BadKeyPaths :
       (DoNew(<<p>>) \/ DoAppend(p)) => last'.res # "ok"]_vars

\* C15 amended: constructing a mask with such a path fails, and appending
\* it fails whatever keyed paths for the same map field were added
\* before, unless the map field or the record mask above it is already
\* complete; then Append accepts the path without reading the key.
C15_BadKeyFailsUnlessComplete ==
  [][\A p \in BadKeyPaths :
       /\ DoNew(<<p>>) => last'.res = "keyparse"
       /\ (/\ DoAppend(p)
           /\ ~fm.nil
           /\ <<"i">> \in DOMAIN fm.fields => ~fm.fields[<<"i">>].nil)
          => (last'.res = "keyparse" /\ fm' = fm)
       /\ (/\ DoAppend(p)
           /\ (fm.nil \/ (<<"i">> \in DOMAIN fm.fields
                           /\ fm.fields[<<"i">>].nil)))
          => (last'.res = "ok" /\ fm' = fm)]_vars

\* An Append with an unparsable key failed on a mask that holds the keys 1
\* and 2 of the same map.
C15_Witness ==
  /\ last.op = "Append"
  /\ last.res = "keyparse"
  /\ added = {<<"i", ".", "1">>, <<"i", ".", "2">>}

\* Paths that go on below the scalar x of the root record and of the
\* nested record n.
ScalarSubpaths == { <<"x", ".", "z">>, <<"n", ".", "x", ".", "z">> }

\* A record mask above the scalar field of p is complete in mm.
RecordAboveComplete(mm, p) ==
  \/ mm.nil
  \/ /\ p[1] = "n"
     /\ <<"n">> \in DOMAIN mm.fields
     /\ mm.fields[<<"n">>].nil

\* C16 as stated: any path that continues past a scalar field with a
\* non-empty subpath fails with an error, both when it is the first path
\* naming that field and when it is appended after the field is already
\* selected.
C16_ScalarSubpathFails ==
  [][\A p \in ScalarSubpaths :
       (DoNew(<<p>>) \/ DoAppend(p)) => last'.res # "ok"]_vars

\* C16 amended: such a path fails with an error as the first path naming
\* the field and when appended after the field is selected, unless a
\* record mask above the scalar field is already complete; then Append
\* accepts it and the mask is unchanged.
C16_ScalarSubpathFailsUnlessComplete ==
  [][\A p \in ScalarSubpaths :
       /\ DoNew(<<p>>) => last'.res = "scalar"
       /\ (DoAppend(p) /\ ~RecordAboveComplete(fm, p))
          => (last'.res = "scalar" /\ fm' = fm)
       /\ (DoAppend(p) /\ RecordAboveComplete(fm, p))
          => (last'.res = "ok" /\ fm' = fm)]_vars

\* An Append of x.z failed on a mask in which x is selected.
C16_Witness ==
  /\ vocab = MixedPaths
  /\ last.op = "Append"
  /\ last.res = "scalar"
  /\ added = {<<"x">>}

\* Paths to a list field with an index after the field name, and a path
\* with a subpath after the wildcard of the list of scalars.
IndexedListPaths == { <<"l", ".", "0">>, <<"r", ".", "0">> }
ScalarListSubpaths == { <<"l", ".", "*", ".", "x">> }

\* C17 as stated: any path to a list field whose segment after the field
\* name is not the wildcard fails with an error, at construction and on
\* append, also when the list field is already fully selected; for a list
\* of scalars any non-empty subpath after the wildcard fails too, also
\* after the list is selected.
C17_BadListPathFails ==
  [][\A p \in IndexedListPaths \cup ScalarListSubpaths :
       (DoNew(<<p>>) \/ DoAppend(p)) => last'.res # "ok"]_vars

\* C17 amended: these paths fail at construction and on append, also when
\* the list field is already fully selected, unless the record mask that
\* holds the list field is already complete; then Append accepts the path
\* and the mask is unchanged.
C17_BadListPathFailsUnlessComplete ==
  [][/\ \A p \in IndexedListPaths :
          /\ DoNew(<<p>>) => last'.res = "list"
          /\ (DoAppend(p) /\ ~fm.nil) => (last'.res = "list" /\ fm' = fm)
          /\ (DoAppend(p) /\ fm.nil) => (last'.res = "ok" /\ fm' = fm)
     /\ \A p \in ScalarListSubpaths :
          /\ DoNew(<<p>>) => last'.res = "scalar"
          /\ (DoAppend(p) /\ ~fm.nil) => (last'.res = "scalar" /\ fm' = fm)
          /\ (DoAppend(p) /\ fm.nil) => (last'.res = "ok" /\ fm' = fm)]_vars

\* An Append with an indexed list path failed on a mask in which the list
\* of records is fully selected.
C17_Witness ==
  /\ vocab = ListPaths
  /\ last.op = "Append"
  /\ last.res = "list"
  /\ added = {<<"r">>}

\* The segments of a path that Paths returned.
RECURSIVE SegmentsOf(_)
SegmentsOf(path) ==
  IF path = <<>> THEN <<>>
  ELSE LET seg == nextSegment(path)
       IN  <<seg.segment>> \o SegmentsOf(seg.rest)

\* What the segment after the segment a is, a being a field name of a
\* record ("rec"), the wildcard of a list ("star") or a map key.
SegmentAfter(ctx, a) ==
  IF ctx # "rec" THEN "rec"
  ELSE IF FieldKind[a[1]] = "msgList" THEN "star"
  ELSE IF FieldKind[a[1]] \in {"scalarMap", "msgMap"}
    THEN MapKeyKind[a[1]]
  ELSE "rec"

\* The canonical order of two different segments at the same place: field
\* names bytewise, the wildcard of a map before every key, integer keys
\* by value and string keys bytewise.
SegmentBefore(ctx, a, b) ==
  IF ctx = "rec" THEN StrLess(a, b)
  ELSE IF a = <<"*">> THEN TRUE
  ELSE IF b = <<"*">> THEN FALSE
  ELSE IF ctx = "int32" THEN ParseInt32(a).k < ParseInt32(b).k
  ELSE StrLess(a, b)

RECURSIVE SegmentsBefore(_, _, _)
SegmentsBefore(ctx, a, b) ==
  IF a = <<>> \/ b = <<>> THEN a = <<>> /\ b # <<>>
  ELSE IF a[1] = b[1]
    THEN SegmentsBefore(SegmentAfter(ctx, a[1]), Tail(a), Tail(b))
  ELSE SegmentBefore(ctx, a[1], b[1])

\* The paths come in strictly ascending canonical order.
CanonicalOrder(paths) ==
  \A j \in 1..(Len(paths) - 1) :
    SegmentsBefore("rec", SegmentsOf(paths[j]), SegmentsOf(paths[j + 1]))

\* C18: canonical order of Paths().  At every record level the fields
\* come in ascending order of field name; under a map field the wildcard
\* paths come before all keyed paths and the keyed paths in ascending
\* order of the typed key; and the result is the same whatever the order
\* in which the paths of the mask were added.
C18_CanonicalPaths ==
  (last.op = "Paths")
  => /\ CanonicalOrder(out.paths)
     /\ (~noPaths /\ Cardinality(added) <= MaxPaths)
        => \A p \in Orders(added) :
             LET other == New(settings, p)
             IN  other.err = "ok" => Paths(other.m) = out.paths

\* The name of the field y in the preferred mode of the settings and its
\* other name.
PreferredName(st) == IF st.fieldName = JSONFieldName THEN "Y" ELSE "y"
OtherName(st) == IF st.fieldName = JSONFieldName THEN "y" ELSE "Y"

\* No path names the field y by the name c.
NotNamed(paths, c) ==
  \A j \in 1..Len(paths) : \A k \in 1..Len(paths[j]) : paths[j][k] # c

\* A path with the name c of the field y at the root or below n is
\* accepted, and Paths names the field by the preferred name pref only.
NameAccepted(c, pref, other) ==
  /\ DoNew(<< <<c>> >>)
       => (last'.res = "ok" /\ Paths(fm') = << <<pref>> >>)
  /\ DoNew(<< <<"n", ".", c>> >>)
       => (last'.res = "ok" /\ Paths(fm') = << <<"n", ".", pref>> >>)
  /\ DoAppend(<<c>>)
       => /\ last'.res = "ok"
          /\ NotNamed(Paths(fm'), other)
          /\ ~fm.nil => <<pref>> \in toSet(Paths(fm'))
  /\ DoAppend(<<"n", ".", c>>)
       => /\ last'.res = "ok"
          /\ NotNamed(Paths(fm'), other)
          /\ (~fm.nil /\ <<"n">> \notin toSet(Paths(fm)))
               => <<"n", ".", pref>> \in toSet(Paths(fm'))

\* C19 as stated: in fallback mode a segment equal to either name of a
\* field is accepted and Paths emits the name of the preferred mode; in
\* strict mode only the name of the preferred mode is accepted and a
\* segment equal only to the other name fails with an unknown-field error.
C19_LookupModes ==
  [][LET pref == PreferredName(settings)
         other == OtherName(settings)
     IN  /\ NameAccepted(pref, pref, other)
         /\ ~settings.strict => NameAccepted(other, pref, other)
         /\ settings.strict =>
              ((\/ DoNew(<< <<other>> >>)
                \/ DoNew(<< <<"n", ".", other>> >>)
                \/ DoAppend(<<other>>)
                \/ DoAppend(<<"n", ".", other>>))
               => (last'.res = "unknown" /\ fm' = fm))]_vars

\* C19 amended: the same, except that in strict mode Append accepts the
\* other name below the record n when the root record mask is already
\* complete, and leaves the mask unchanged.
C19_LookupModesUnlessComplete ==
  [][LET pref == PreferredName(settings)
         other == OtherName(settings)
     IN  /\ NameAccepted(pref, pref, other)
         /\ ~settings.strict => NameAccepted(other, pref, other)
         /\ settings.strict =>
              /\ (\/ DoNew(<< <<other>> >>)
                  \/ DoNew(<< <<"n", ".", other>> >>)
                  \/ DoAppend(<<other>>)
                  \/ (DoAppend(<<"n", ".", other>>) /\ ~fm.nil))
                 => (last'.res = "unknown" /\ fm' = fm)
              /\ (DoAppend(<<"n", ".", other>>) /\ fm.nil)
                 => (last'.res = "ok" /\ fm' = fm)]_vars

\* In the strict text mode an Append was refused for an unknown field on
\* a mask that selects the record n whole: the path was Y or n.Y.
C19_Witness ==
  /\ vocab = NamePaths
  /\ settings.strict
  /\ settings.fieldName = TextFieldName
  /\ last.op = "Append"
  /\ last.res = "unknown"
  /\ added = {<<"n">>}

\* The unknown bytes that the policy of the settings makes of the unknown
\* bytes d of the destination and s of the source.
UnknownsAfter(st, d, s) ==
  CASE st.updateUnknowns = UpdateAppendsUnknowns -> d \o s
    [] st.updateUnknowns = UpdateReplacesUnknowns -> s
    [] OTHER -> d

\* The mask descends into the record n with an incomplete record mask.
DescendsIntoN(mm) ==
  /\ ~mm.nil
  /\ <<"n">> \in DOMAIN mm.fields
  /\ ~mm.fields[<<"n">>].nil

\* C20: unknown data on Update follows the policy, for complete and
\* incomplete masks alike.  UpdateRetainsUnknowns leaves the unknown bytes
\* of dst unchanged, UpdateAppendsUnknowns makes them those of dst followed
\* by those of src, UpdateReplacesUnknowns makes them those of src (none
\* when src has none); the same holds of the record n when the mask
\* descends into it and src has it.
C20_UnknownsFollowPolicy ==
  (last.op = "Update")
  => /\ out.res.u = UnknownsAfter(settings, out.msg.u, out.src.u)
     /\ (DescendsIntoN(fm) /\ "n" \in DOMAIN out.src.f)
        => out.res.f["n"].u =
             UnknownsAfter(settings,
               IF "n" \in DOMAIN out.msg.f THEN out.msg.f["n"].u ELSE <<>>,
               out.src.f["n"].u)

\* Under an incomplete mask and the appending policy, Update put the
\* unknown bytes of src after those of dst.
C20_Witness ==
  /\ last.op = "Update"
  /\ ~fm.nil
  /\ settings.updateUnknowns = UpdateAppendsUnknowns
  /\ out.msg.u = <<7>>
  /\ out.src.u = <<6>>
  /\ out.res.u = <<7, 6>>

\* A record whose maps have an entry under the key "*" beside the entry
\* under k.
KeyStar == <<"*">>
MsgStar ==
  [f |-> ("s" :> ((KeyStar :> 1) @@ (KeyK :> 2)))
         @@ ("m" :> ((KeyStar :> SubA) @@ (KeyK :> SubC))),
   u |-> <<>>]

QuotedStarScalar == <<"s", ".", BQ, "*", BQ>>
QuotedStarRecord == <<"m", ".", BQ, "*", BQ, ".", "x">>

\* The keys of the map s of MsgStar that the paths added select by key.
StarKeysAdded ==
  {KeyStar} \cup
  (IF added \cap {<<"s", ".", "k">>, <<"s", ".", BQ, "k", BQ>>} # {}
   THEN {KeyK} ELSE {})

\* C21: at a map-key position a segment between back quotes is unquoted
\* before the key is parsed.  A quoted * selects only the entry whose
\* string key is "*" and is never taken for the wildcard, and Paths emits
\* that key quoted again, so that it parses back to the same keyed
\* selection.
C21_QuotedKeys ==
  (vocab = QuotedPaths /\ built /\ ~noPaths)
  => /\ (QuotedStarScalar \in added /\ <<"s", ".", "*">> \notin added)
        => /\ ~fm.nil /\ <<"s">> \in DOMAIN fm.fields
           /\ ~fm.fields[<<"s">>].nil
           /\ KeyStar \in fm.fields[<<"s">>].keys
           /\ Mask(settings, fm, MsgStar).f["s"]
                = [k \in StarKeysAdded |-> MsgStar.f["s"][k]]
           /\ Clone(settings, fm, MsgStar).f["s"]
                = [k \in StarKeysAdded |-> MsgStar.f["s"][k]]
           /\ QuotedStarScalar \in toSet(Paths(fm))
     /\ (added = {QuotedStarRecord})
        => /\ Paths(fm) = <<QuotedStarRecord>>
           /\ Mask(settings, fm, MsgStar).f["m"]
                = (KeyStar :> [f |-> ("x" :> 1), u |-> <<>>])
     /\ (added = {<<"s", ".", BQ, "k", BQ>>})
        => Paths(fm) = << <<"s", ".", "k">> >>
     /\ (added = {<<"i", ".", BQ, "1", BQ>>})
        => Paths(fm) = << <<"i", ".", "1">> >>
     /\ LET again == New(settings, Paths(fm))
        IN  again.err = "ok" /\ again.m = fm

\* Paths returned the quoted key for a mask built from s.`*`.
C21_Witness ==
  /\ vocab = QuotedPaths
  /\ last.op = "Paths"
  /\ added = {QuotedStarScalar}
  /\ out.paths = <<QuotedStarScalar>>

\* A segment as the grammar of paths has it: the wildcard, a string
\* between back quotes with no back quote inside, or a name, which is not
\* empty, does not begin with * or a back quote and holds no delimiter.
IsSegment(t) ==
  \/ t = <<"*">>
  \/ /\ Len(t) >= 2 /\ t[1] = BQ /\ t[Len(t)] = BQ
     /\ \A j \in 2..(Len(t) - 1) : t[j] # BQ
  \/ /\ t # <<>> /\ t[1] \notin {"*", BQ}
     /\ \A j \in 1..Len(t) : t[j] \notin {".", ","}

\* A path: segments with one dot between each two.
RECURSIVE IsPath(_)
IsPath(p) ==
  \E n \in 1..Len(p) :
    /\ IsSegment(SubSeq(p, 1, n))
    /\ \/ n = Len(p)
       \/ /\ n + 1 < Len(p) /\ p[n + 1] = "."
          /\ IsPath(SubSeq(p, n + 2, Len(p)))

\* Paths with one comma between each two.
RECURSIVE IsPathList(_)
IsPathList(s) ==
  \/ IsPath(s)
  \/ \E n \in 1..(Len(s) - 2) :
       /\ IsPath(SubSeq(s, 1, n)) /\ s[n + 1] = ","
       /\ IsPathList(SubSeq(s, n + 2, Len(s)))

\* The string begins with a path that ends the string or is followed by
\* a comma and at least one more character.
FirstPathOk(s) ==
  \/ IsPath(s)
  \/ \E n \in 1..(Len(s) - 2) : IsPath(SubSeq(s, 1, n)) /\ s[n + 1] = ","

\* What nextPath returns when it succeeds: the first path and the rest,
\* the string being the path alone or the path, a comma and the rest.
SplitsAtFirstComma(s, r) ==
  /\ IsPath(r.path)
  /\ \/ r.rest = <<>> /\ s = r.path
     \/ r.rest # <<>> /\ s = r.path \o <<",">> \o r.rest

\* C22 as stated: nextPath(input) fails with a syntax error exactly when
\* the input is empty, starts or ends with a delimiter, contains an empty
\* segment, has a quote left open or has characters directly after a
\* quoted segment or * with no delimiter, that is when the input is not
\* a list of paths; otherwise it returns the first path and the rest.
C22_NextPath ==
  [][DoNextPath =>
       /\ parsed'.err \in {"ok", errSyntax}
       /\ parsed'.err = "ok" <=> IsPathList(input)
       /\ parsed'.err = "ok" => SplitsAtFirstComma(input, parsed')]_vars

\* C22 amended: nextPath examines the input up to the first comma outside
\* quotes and the character after it only.
C22_NextPathFirstOnly ==
  [][DoNextPath =>
       /\ parsed'.err \in {"ok", errSyntax}
       /\ parsed'.err = "ok" <=> FirstPathOk(input)
       /\ parsed'.err = "ok" => SplitsAtFirstComma(input, parsed')]_vars

\* nextPath returned a quoted comma as the first path and the path after
\* the comma that follows it as the rest.
C22_Witness ==
  /\ parsed.err = "ok"
  /\ parsed.path = <<BQ, ",", BQ>>
  /\ parsed.rest = <<"x">>

\* C23: the propagation of the wildcard never fails.  Whatever paths are
\* added to the mask of a map of records, a wild submask that is complete
\* (m.*.*) included, appending an accepted wildcard subpath to the keyed
\* submasks and seeding a new keyed submask from the paths of the wild
\* submask succeed: New and Append never panic.
C23_NoPanic == last.res # "panic"

\* The field mask f and every mask below it is complete exactly when it
\* has no paths.
RECURSIVE CompleteIffNoPaths(_)
CompleteIffNoPaths(f) ==
  /\ fieldMask_complete(f) <=> Len(fieldMask_paths(f)) = 0
  /\ (f.t = "msg" /\ ~f.nil)
       => \A name \in DOMAIN f.fields : CompleteIffNoPaths(f.fields[name])
  /\ (f.t = "msgList" /\ ~f.nil) => CompleteIffNoPaths(f.msgMask)
  /\ (f.t = "msgMap" /\ ~f.wildNil) => CompleteIffNoPaths(f.wildMask)
  /\ (f.t = "msgMap" /\ ~f.keyedNil)
       => \A k \in DOMAIN f.keyedMasks : CompleteIffNoPaths(f.keyedMasks[k])

\* C24: the completeness invariant.  Every field mask reached by init and
\* successful appends is complete exactly when it keeps everything below
\* it, which is exactly when it has no paths; a list or map field
\* selected as f.*.* is complete, with no element mask or wild submask
\* kept.
C24_Completeness ==
  built => /\ CompleteIffNoPaths(fm)
           /\ \A name \in (IF fm.nil THEN {} ELSE DOMAIN fm.fields) :
                fm.fields[name].t = "msgMap"
                  => (fm.fields[name].wildNil
                      \/ ~msgMask_complete(fm.fields[name].wildMask))

\* The path is a field name of one character alone or followed by a dot
\* and at least one more character.
WellSplit(p) == Len(p) = 1 \/ (Len(p) >= 3 /\ p[2] = ".")

\* C25 as stated: Append on a record mask that is already complete fails
\* with an unknown-field error exactly when the leading segment does not
\* resolve to a field of the record type; when it resolves, the append
\* succeeds whatever the rest of the path is, and the mask stays complete
\* with the same Paths.
C25_AppendOnComplete ==
  [][\A p \in vocab \ {<<"*">>} :
       (DoAppend(p) /\ fm.nil)
       => /\ last'.res = "unknown" <=> p[1] \notin FieldNames
          /\ p[1] \in FieldNames => last'.res = "ok"
          /\ fm' = fm
          /\ Paths(fm') = << <<"*">> >>]_vars

\* C25 amended: the same for a path from which a leading segment can be
\* split off; a path that ends right after the dot that follows its
\* leading segment fails with a syntax error.
C25_AppendOnCompleteSplit ==
  [][\A p \in vocab \ {<<"*">>} :
       (DoAppend(p) /\ fm.nil)
       => /\ ~WellSplit(p) => last'.res = errSyntax
          /\ WellSplit(p) =>
               /\ last'.res = "unknown" <=> p[1] \notin FieldNames
               /\ p[1] \in FieldNames => last'.res = "ok"
          /\ fm' = fm
          /\ Paths(fm') = << <<"*">> >>]_vars

\* An Append of an unknown field was refused on a mask built from no
\* paths, which is complete.
C25_Witness ==
  /\ vocab = MixedPaths
  /\ noPaths
  /\ fm.nil
  /\ last.op = "Append"
  /\ last.res = "unknown"

\* The settings with the field-name mode set to mode.
WithMode(st, mode) == [st EXCEPT !.fieldName = mode]

\* The masks a and b, built under the settings sa and sb, keep the same
\* fields of every record and update every destination alike.
SameUse(sa, a, sb, b) ==
  /\ \A r \in Records :
       /\ Mask(sa, a, r) = Mask(sb, b, r)
       /\ Clone(sa, a, r) = Clone(sb, b, r)
  /\ \A pair \in UpdatePairs :
       Update(sa, a, pair[1], pair[2]) = Update(sb, b, pair[1], pair[2])

\* C26: the field-name mode affects only the names that paths accept and
\* emit.  For a path list accepted under TextFieldName and under
\* JSONFieldName the two masks keep the same fields under Mask and Clone
\* and give the same destination under Update, for every record, a field
\* whose JSON name differs from its text name included.
C26_ModeOnlyNames ==
  (last.op \in {"New", "Append"} /\ last.res = "ok" /\ ~noPaths)
  => \A p \in Orders(added) :
       LET text == New(WithMode(settings, TextFieldName), p)
           json == New(WithMode(settings, JSONFieldName), p)
       IN  (text.err = "ok" /\ json.err = "ok")
           => SameUse(WithMode(settings, TextFieldName), text.m,
                      WithMode(settings, JSONFieldName), json.m)

SelectedWhole(mm, fd) ==
  \/ mm.nil
  \/ /\ TextName(fd) \in DOMAIN mm.fields
     /\ fieldMask_complete(mm.fields[TextName(fd)])

\* C28: a nil source is an empty record, not an error.  For every mask
\* and every dst, Update(dst, nil) leaves dst as Update(dst, empty record)
\* does: a selected scalar, record or map field is cleared, and a
\* selected list field follows the repeated-field policy.
C28_NilSource ==
  (last.op = "Update" /\ out.src = NilMsg)
  => /\ last.res = "ok"
     /\ out.res = Update(settings, fm, out.msg, EmptyMsg)
     /\ \A fd \in FieldNames :
          SelectedWhole(fm, fd)
          => IF IsListField(fd)
                /\ settings.updateRepeated = UpdateAppendsRepeated
             THEN SameField(out.msg, out.res, fd)
             ELSE ~Has(out.res, fd)
     /\ \A fd \in FieldNames :
          (~fm.nil /\ TextName(fd) \notin DOMAIN fm.fields)
          => SameField(out.msg, out.res, fd)

\* Update with a nil source cleared the scalar x that the mask selects.
C28_Witness ==
  /\ last.op = "Update"
  /\ out.src = NilMsg
  /\ added = {<<"x">>}
  /\ "x" \in DOMAIN out.msg.f
  /\ "x" \notin DOMAIN out.res.f

\* The mask b is used as the mask a is: the same Paths, and the same
\* result of Mask and of Clone on every record.
SameMask(a, b) ==
  /\ Paths(a) = Paths(b)
  /\ \A msg \in Records :
       /\ Mask(settings, a, msg) = Mask(settings, b, msg)
       /\ Clone(settings, a, msg) = Clone(settings, b, msg)

\* C29: adding a path is idempotent.  Append of a path that the mask has
\* already accepted succeeds, and leaves Paths() and the result of Mask
\* and Clone on every record as they were.
C29_AppendIdempotent ==
  [][\A path \in vocab :
       (DoAppend(path) /\ path \in added)
       => (last'.res = "ok" /\ SameMask(fm, fm'))]_vars

\* The default settings: Update replaces repeated fields and retains the
\* unknown data of dst, Mask removes unknown data.
DefaultSettings(st) ==
  /\ st.updateRepeated = UpdateReplacesRepeated
  /\ st.updateUnknowns = UpdateRetainsUnknowns
  /\ st.maskUnknowns = MaskRemovesUnknowns

\* The record has no unknown data, at any level.
RECURSIVE NoUnknowns(_)
NoUnknowns(msg) ==
  /\ msg.u = <<>>
  /\ \A fd \in Populated(msg) :
       CASE FieldKind[fd] = "msg" -> NoUnknowns(msg.f[fd])
         [] FieldKind[fd] = "msgList" ->
              \A j \in 1..Len(msg.f[fd]) : NoUnknowns(msg.f[fd][j])
         [] FieldKind[fd] = "msgMap" ->
              \A k \in DOMAIN msg.f[fd] : NoUnknowns(msg.f[fd][k])
         [] OTHER -> TRUE

\* C30: Update into an empty destination equals Clone.  With the default
\* settings, for every mask and every source record without unknown data,
\* Update(dst, src) on a freshly created empty dst leaves dst equal to
\* Clone(src).
C30_UpdateEmptyIsClone ==
  (/\ last.op = "Update"
   /\ DefaultSettings(settings)
   /\ out.msg = EmptyMsg
   /\ IsValid(out.src)
   /\ NoUnknowns(out.src))
  => ProtoEqual(out.res, Clone(settings, fm, out.src))

\* Update copied a proper part of the source into the empty record.
C30_Witness ==
  /\ last.op = "Update"
  /\ DefaultSettings(settings)
  /\ out.msg = EmptyMsg
  /\ out.src = MsgClean
  /\ ~msgMask_complete(fm)
  /\ Populated(out.res) # {}
  /\ ~ProtoEqual(out.res, out.src)

====
